---- MODULE Spec2Model ----
(***************************************************************************)
(* A model of third_party/gimme/gimme, the Go toolchain version manager,   *)
(* and of nativeType of the validation-gen code generator.                 *)
(*                                                                         *)
(* The script's persistent state is the file system under                  *)
(* GIMME_VERSION_PREFIX, GIMME_ENV_PREFIX and GIMME_TMP; one invocation is *)
(* one run of the script's main flow.  Eleven specifications share the     *)
(* module:                                                                 *)
(*   Spec         the install flow (argument handling, version assertion,  *)
(*                force wipe, strategy dispatch), one invocation after the *)
(*                other, each of which may be killed at any step;          *)
(*   SpecFetch    _do_curls, applied to every list of candidate outcomes;  *)
(*   SpecCatalog  the known-versions cache, two invocations interleaved;   *)
(*   SpecResolve  _resolve_version on a ".x" specifier, for every catalog. *)
(*   SpecCheckout _checkout, for every reference and repository;           *)
(*   SpecAlias    _env, _env_alias and _wipe_version on the descriptors;   *)
(*   SpecQuery    the resolve query gimme -r, one query after the other;   *)
(*   SpecRace     two invocations of _try_binary at once;                  *)
(*   SpecFlow     the main flow on a specifier spelled out;                *)
(*   SpecCalls    the calls of version resolution, as a stack;             *)
(*   SpecNative   nativeType, for every type of bounded depth.             *)
(* A variable a specification does not use keeps its initial value.        *)
(***************************************************************************)
EXTENDS Integers, Sequences, FiniteSets, TLC

VARIABLES
    \* ---- file system of the install flow
    dirs,       \* dirs[prefix][kind]: state of an install directory
    envs,       \* envs[kind]: state of a descriptor file under GIMME_ENV_PREFIX
    tgz,        \* tgz[kind]: the downloaded archive and its .sha256 under GIMME_TMP
    \* ---- the host
    transport,  \* one of curl, wget, fetch is installed
    cross,      \* GIMME_OS/GIMME_ARCH differ from the host's
    \* ---- the running invocation
    pc,         \* position in the main flow
    cfg,        \* GIMME_TYPE, force flag, specifier, version prefix
    tried,      \* strategy functions entered by the dispatch, in order
    okStrat,    \* the strategy function that returned 0, or "none"
    net,        \* network requests issued by this invocation (capped)
    builds,     \* build steps (_compile) run by this invocation (capped)
    exit,       \* exit status: -1 while running, 0, 1, 128 (git failed), 137 (killed)
    snap,       \* the binary record as it was when the invocation started, and
                \* whether the invocation before was a forced one killed before
                \* it entered a strategy
    runs,       \* invocations started so far
    \* ---- _do_curls on its own
    fpc, fIn, fOuts, fRes,
    \* ---- the known-versions cache
    now, hostos, ttl, known, knownNew, dlfile, everKnown,
    cpc, cforce, chk, cview, cruns,
    \* ---- _resolve_version on its own
    rpc, rSort, rRemote, rBase, rRes,
    \* ---- _checkout on its own
    kpc, kIn, kRes,
    \* ---- the descriptors and the alias under GIMME_ENV_PREFIX
    ehost,      \* the machine: its OS and architecture, whether it also runs
                \* binaries of the other architecture, and GIMME_SILENT_ENV
    edesc,      \* edesc[name]: the descriptor file <name>.env
    ealias,     \* ealias[version]: the file go<version>.env
    elatest,    \* the version whose go<version>.env latest.env links to
    esteps,     \* installs and wipes so far
    \* ---- the resolve query (gimme -r)
    qenv,       \* transport installed, what the servers hold, and what
                \* `_version_sort | uniq` of this machine makes of the catalogue
    qstable,    \* the file GIMME_VERSION_PREFIX/stable
    qold,       \* the file GIMME_VERSION_PREFIX/oldstable
    qknown,     \* the file GIMME_VERSION_PREFIX/known-versions.txt
    qres,       \* specifier, exit status and output of the last query
    qn,         \* queries so far
    \* ---- two invocations of _try_binary for the same version and platform
    xpc,        \* xpc[p]: the command invocation p is at
    xtgz,       \* the archive under GIMME_TMP
    xsha,       \* its .sha256 file
    xdir,       \* the install directory
    xenv,       \* the descriptor
    xlink,      \* xlink[p]: the file p's transfer writes is the one the path names
    \* ---- the main flow on a specifier spelled out
    gpc,        \* position in the main flow
    gcfg,       \* the specifier given and GIMME_TYPE
    gver,       \* GIMME_GO_VERSION
    grepo,      \* the clone GIMME_VERSION_PREFIX/go: "none", "stale" (not
                \* fetched by this invocation) or "fresh"
    ginst,      \* the records _try_existing finds: <<kind, version>>
    gops,       \* fetches, checkouts and downloads of this invocation
    gexit,      \* exit status, -1 while running
    gn,         \* invocations so far
    \* ---- the calls of version resolution
    callstack,  \* the functions running, the caller before the callee
    calls,      \* functions called by this invocation (capped)
    entries,    \* invocations so far
    \* ---- nativeType on its own
    ntpc, ntIn, ntOut

installVars == <<dirs, envs, tgz, transport, cross, pc, cfg, tried, okStrat,
                 net, builds, exit, snap, runs>>
fetchVars   == <<fpc, fIn, fOuts, fRes>>
catVars     == <<now, hostos, ttl, known, knownNew, dlfile, everKnown,
                 cpc, cforce, chk, cview, cruns>>
resVars     == <<rpc, rSort, rRemote, rBase, rRes>>
checkoutVars == <<kpc, kIn, kRes>>
aliasVars   == <<ehost, edesc, ealias, elatest, esteps>>
queryVars   == <<qenv, qstable, qold, qknown, qres, qn>>
raceVars    == <<xpc, xtgz, xsha, xdir, xenv, xlink>>
flowVars    == <<gpc, gcfg, gver, grepo, ginst, gops, gexit, gn>>
callVars    == <<callstack, calls, entries>>
nativeVars  == <<ntpc, ntIn, ntOut>>
lateVars    == <<flowVars, callVars, nativeVars>>
sideVars    == <<checkoutVars, aliasVars, queryVars, raceVars, lateVars>>
vars        == <<installVars, fetchVars, catVars, resVars, sideVars>>

(***************************************************************************)
(* Bounds of the model.                                                    *)
(***************************************************************************)
MaxRuns  == 2   \* invocations of the install flow in one behaviour
MaxCount == 1   \* cap of the per-invocation counters net and builds
MaxCand  == 3   \* candidate URLs handed to _do_curls
MaxUrls  == 2   \* candidate URLs of a download of the install flow
MaxTime  == 2   \* clock ticks in the cache specification
MaxTTL   == 2   \* largest GIMME_KNOWN_CACHE_MAX, in clock ticks
MaxGets  == 1   \* catalog gets of one invocation
MaxCat   == 3   \* entries of a remote catalog
MaxSteps == 3   \* installs and wipes in the descriptor specification
MaxQueries == 3 \* resolve queries in one behaviour

Min(a, b) == IF a < b THEN a ELSE b

Range(s) == {s[i] : i \in DOMAIN s}

Last(s) == s[Len(s)]

IsPrefix(s, t) == Len(s) <= Len(t) /\ SubSeq(t, 1, Len(s)) = s

(***************************************************************************)
(* Archives and digests.  An archive file holds "none" (no file),          *)
(* "partial" (a transfer that broke off) or a content; a .sha256 file      *)
(* holds "none" or the digest of a content.                                *)
(***************************************************************************)
Contents == {"good", "bad"}

Sha256(c) == "sha256:" \o c

Digests == {Sha256(c) : c \in Contents}

\* What one candidate URL does: the archive transfer fails, breaks off or
\* delivers a content; the .sha256 transfer fails or delivers a digest.
Outcome == [art : {"fail", "partial"} \cup Contents, dig : {"fail"} \cup Digests]

\* _sha256sum -c "${f}.sha256": the recorded digest is the file's.
Sha256sumCheck(f, s) == f \in Contents /\ s = Sha256(f)

\* Mutation of Exhausted: the file of the last transfer is left in place.
ExhaustedKeepsFile(f, s, tr, n) == [ok |-> FALSE, f |-> f, s |-> s, tried |-> tr, net |-> n]

\* The loop fell through: rm -f "${f}"; return 1.
Exhausted(f, s, tr, n) == [ok |-> FALSE, f |-> "none", s |-> s, tried |-> tr, net |-> n]

RECURSIVE CurlLoop(_, _, _, _, _, _)

\* Mutation of OnMismatch: the warning is printed and the file is kept.
OnMismatchReturn(f, s, outs, i, tr, n) ==
    [ok |-> TRUE, f |-> f, s |-> s, tried |-> tr, net |-> n]

\* A digest that does not match: warn, continue with the next candidate.
OnMismatch(f, s, outs, i, tr, n) == CurlLoop(f, s, outs, i + 1, tr, n)

\* for url in "$@": _do_curl url f; _do_curl url.sha256 f.sha256; verify.
CurlLoop(f, s, outs, i, tr, n) ==
    IF i > Len(outs) THEN Exhausted(f, s, tr, n)
    ELSE LET o == outs[i] IN
         IF o.art \notin Contents
         THEN \* _do_curl failed: the file keeps what the transfer left
              CurlLoop(IF o.art = "partial" THEN "partial" ELSE f, s, outs,
                       i + 1, Append(tr, i), n + 1)
         ELSE IF o.dig = "fail"
              THEN \* no digest reachable: accepted unverified
                   [ok |-> TRUE, f |-> o.art, s |-> s, tried |-> Append(tr, i), net |-> n + 2]
              ELSE IF Sha256sumCheck(o.art, o.dig)
                   THEN [ok |-> TRUE, f |-> o.art, s |-> o.dig,
                         tried |-> Append(tr, i), net |-> n + 2]
                   ELSE OnMismatch(o.art, o.dig, outs, i, Append(tr, i), n + 2)

\* _do_curls "file" "url"...: a verified file of an earlier run is reused.
_do_curls(f, s, outs) ==
    IF Sha256sumCheck(f, s)
    THEN [ok |-> TRUE, f |-> f, s |-> s, tried |-> <<>>, net |-> 0]
    ELSE CurlLoop(f, s, outs, 1, <<>>, 0)

SeqsUpTo(S, n) == UNION {[1..k -> S] : k \in 1..n}

\* What the servers of the install flow deliver: the release and its digest,
\* when a transfer does not fail or break off.
Upstream == {o \in Outcome : o.art # "bad" /\ o.dig # Sha256("bad")}

(***************************************************************************)
(* The install flow.                                                       *)
(*                                                                         *)
(* One version key is modelled: the directories                            *)
(*   bin  ${GIMME_VERSION_PREFIX}/go${version}.${GIMME_OS}.${GIMME_ARCH}    *)
(*   src  ${GIMME_VERSION_PREFIX}/go${version}.src                          *)
(*   git  ${GIMME_VERSION_PREFIX}/go                                        *)
(* under each version prefix, and the descriptors of the same three names  *)
(* under GIMME_ENV_PREFIX, which does not depend on the version prefix.    *)
(* A directory is "none" (absent), "tree" (files, no executable bin/go),   *)
(* "broken" (bin/go has the executable bit and does not run: truncated, or *)
(* built for another platform) or "ok" (bin/go runs and reports a          *)
(* version).  A descriptor is "none", "empty" or "full" (not empty).       *)
(***************************************************************************)
Prefixes == {"A", "B"}

Kinds == {"bin", "src", "git"}

DirStates == {"none", "tree", "broken", "ok"}

EnvStates == {"none", "empty", "full"}

Modes == {"auto", "binary", "source", "git"}

\* exact: digits.digits...; wild: ends in .x; ref: anything else
SpecKinds == {"exact", "wild", "ref"}

\* Mutation of Dispatch: auto builds from source before it tries the release.
DispatchSourceFirst(mode) ==
    CASE mode = "binary" -> <<"ExistingBinary", "PrecompiledBinary">>
      [] mode = "source" -> <<"ExistingSource", "SourceBuild", "GitBuild">>
      [] mode = "git"    -> <<"GitBuild">>
      [] mode = "auto"   -> <<"ExistingBinary", "ExistingSource", "SourceBuild",
                              "PrecompiledBinary", "GitBuild">>

\* The case statement of the main flow: the functions each GIMME_TYPE chains
\* with ||.  _try_existing without argument is _try_existing binary ||
\* _try_existing source.
Dispatch(mode) ==
    CASE mode = "binary" -> <<"ExistingBinary", "PrecompiledBinary">>
      [] mode = "source" -> <<"ExistingSource", "SourceBuild", "GitBuild">>
      [] mode = "git"    -> <<"GitBuild">>
      [] mode = "auto"   -> <<"ExistingBinary", "ExistingSource", "PrecompiledBinary",
                              "SourceBuild", "GitBuild">>

\* a || b: what runs when strategy s returned non-zero.
Fallback(mode, s) ==
    LET d == Dispatch(mode)
        i == CHOOSE j \in DOMAIN d : d[j] = s
    IN  IF i < Len(d) THEN d[i + 1] ELSE "exhausted"

\* Mutation of ExistingOk: the test of the descriptor is inverted.
ExistingOkInverted(dir, env) == dir \in {"broken", "ok"} /\ env # "full"

\* Mutation of ExistingOk: the descriptor alone decides.
ExistingOkEnvOnly(dir, env) == env = "full"

\* [[ -x "${existing_ver}/bin/go" && -s "${existing_env}" ]]
ExistingOk(dir, env) == dir \in {"broken", "ok"} /\ env = "full"

\* _env "dir": fails unless bin/go is executable and `go version` runs.
EnvRuns(dir) == dir = "ok"

\* awk -F\" '/GOROOT/ { print $2 }': the text between the first two double
\* quotes of the GOROOT line.  _env writes export GOROOT='dir'; with single
\* quotes, so the field is empty for every descriptor this script wrote.
AwkGoroot(env) == ""

\* rm -rf "path" on the directories of one prefix.
RmRf(d, path) == IF path = "" THEN d ELSE [k \in Kinds |-> IF k = path THEN "none" ELSE d[k]]

\* What an extraction or a build that stopped half way leaves behind.
Leftover(old) == {"tree", "broken"} \cup ({old} \ {"none"})

Bump(n, k) == Min(n + k, MaxCount)

SetDir(k, v) == dirs' = [dirs EXCEPT ![cfg.prefix][k] = v]

\* The strategy returned 0: the || chain stops, the script ends with 0.
Succeed(s) == pc' = "done" /\ okStrat' = s /\ exit' = 0

\* Mutation of Fail: the first strategy that fails ends the script.
FailIsFatal(s) == pc' = "done" /\ exit' = 1 /\ okStrat' = okStrat

\* The strategy returned non-zero: the next one of the chain runs; after the
\* last one the script reports it has no idea what to do and exits 1.
Fail(s) ==
    LET nx == Fallback(cfg.mode, s)
    IN  /\ okStrat' = okStrat
        /\ IF nx = "exhausted" THEN pc' = "done" /\ exit' = 1
                               ELSE pc' = nx /\ exit' = exit

\* exit 1 in the main shell.
Abort(status) == pc' = "done" /\ exit' = status /\ okStrat' = okStrat

\* The flow goes on with the next step of the same function.
Step(next) == pc' = next /\ okStrat' = okStrat /\ exit' = exit

hostVars == <<transport, cross>>

InstallFrame == UNCHANGED <<hostVars, fetchVars, catVars, resVars, sideVars>>

\* Argument loop and configuration: a new invocation starts.
Start ==
    /\ pc \in {"idle", "done"}
    /\ runs < MaxRuns
    /\ \E m \in Modes, f \in BOOLEAN, k \in SpecKinds, a \in BOOLEAN, p \in Prefixes :
          /\ k # "exact" => ~a
          /\ cfg' = [mode |-> m, force |-> f, kind |-> k, allowed |-> a, prefix |-> p]
          /\ snap' = [dir |-> dirs[p]["bin"], env |-> envs["bin"],
                       cut |-> exit = 137 /\ cfg.force /\ tried = <<>>]
    /\ pc' = "assert"
    /\ tried' = <<>> /\ okStrat' = "none" /\ exit' = -1
    /\ net' = 0 /\ builds' = 0
    /\ runs' = runs + 1
    /\ UNCHANGED <<dirs, envs, tgz>>
    /\ InstallFrame

\* _assert_version_given, called by the main flow (ASSERT_ABORT unset, set -e on).
_assert_version_given ==
    /\ pc = "assert"
    /\ \/ \* the version looks like digits.digits: return 0
          /\ cfg.kind = "exact"
          /\ Step("wipe")
          /\ UNCHANGED <<cfg, net, dirs>>
       \/ \* *.x: _resolve_version reads the known-versions cache, which may
          \* fetch; no release found: exit 1
          /\ cfg.kind = "wild"
          /\ \E fetched \in BOOLEAN, found \in BOOLEAN :
                /\ fetched => transport
                /\ net' = Bump(net, IF fetched THEN 1 ELSE 0)
                /\ IF found
                   THEN Step("wipe") /\ cfg' = [cfg EXCEPT !.allowed = TRUE]
                   ELSE Abort(1) /\ cfg' = cfg
          /\ UNCHANGED dirs
       \/ \* a git reference, not resolved for the binary and source types
          /\ cfg.kind = "ref"
          /\ cfg.mode \notin {"auto", "git"}
          /\ Abort(1)
          /\ UNCHANGED <<cfg, net, dirs>>
       \/ \* a git reference: _fetch (clone or fetch), then _checkout
          /\ cfg.kind = "ref"
          /\ cfg.mode \in {"auto", "git"}
          /\ net' = Bump(net, 1)
          /\ \E fetch \in {"ok", "fail"}, checkout \in {"ok", "fail"} :
                IF fetch = "fail"
                THEN \* set -e: the script ends with git's status
                     Abort(128) /\ UNCHANGED dirs
                ELSE /\ SetDir("git", IF dirs[cfg.prefix]["git"] = "none"
                                      THEN "tree" ELSE dirs[cfg.prefix]["git"])
                     /\ IF checkout = "ok" THEN Step("wipe") ELSE Abort(1)
          /\ UNCHANGED cfg
    /\ UNCHANGED <<envs, tgz, tried, builds, snap, runs>>
    /\ InstallFrame

\* ((force_install)) && _wipe_version: the descriptor names the directory to
\* remove.
_wipe_version ==
    /\ pc = "wipe"
    /\ IF cfg.force /\ envs["bin"] = "full"
       THEN /\ dirs' = [dirs EXCEPT ![cfg.prefix] = RmRf(@, AwkGoroot(envs["bin"]))]
            /\ Step("wipe_env")
       ELSE /\ UNCHANGED dirs
            /\ Step(Dispatch(cfg.mode)[1])
    /\ UNCHANGED <<envs, tgz, cfg, tried, net, builds, snap, runs>>
    /\ InstallFrame

\* _wipe_version: rm -f "${env_file}"
_wipe_version_env ==
    /\ pc = "wipe_env"
    /\ envs' = [envs EXCEPT !["bin"] = "none"]
    /\ Step(Dispatch(cfg.mode)[1])
    /\ UNCHANGED <<dirs, tgz, cfg, tried, net, builds, snap, runs>>
    /\ InstallFrame

\* _try_existing binary.  Nothing is ever installed under the name of a git
\* reference: the directories of the modelled version are not looked at then.
_try_existing_binary ==
    /\ pc = "ExistingBinary"
    /\ tried' = Append(tried, "ExistingBinary")
    /\ IF cfg.kind # "ref" /\ ExistingOk(dirs[cfg.prefix]["bin"], envs["bin"])
       THEN Succeed("ExistingBinary") ELSE Fail("ExistingBinary")
    /\ UNCHANGED <<dirs, envs, tgz, cfg, net, builds, snap, runs>>
    /\ InstallFrame

\* _try_existing source
_try_existing_source ==
    /\ pc = "ExistingSource"
    /\ tried' = Append(tried, "ExistingSource")
    /\ IF cfg.kind # "ref" /\ ExistingOk(dirs[cfg.prefix]["src"], envs["src"])
       THEN Succeed("ExistingSource") ELSE Fail("ExistingSource")
    /\ UNCHANGED <<dirs, envs, tgz, cfg, net, builds, snap, runs>>
    /\ InstallFrame

\* The download of _try_binary and _try_source: the version must look like an
\* upstream release; _binary / _source hand their URLs to _do_curls.  Without
\* a transport tool _do_curl ends the script with exit 1.
Download(s, k, urls, next) ==
    /\ tried' = Append(tried, s)
    /\ IF ~cfg.allowed
       THEN Fail(s) /\ UNCHANGED <<tgz, net>>
       ELSE IF Sha256sumCheck(tgz[k].f, tgz[k].s)
            THEN Step(next) /\ UNCHANGED <<tgz, net>>
            ELSE IF ~transport
                 THEN Abort(1) /\ UNCHANGED <<tgz, net>>
                 ELSE \E outs \in urls :
                         LET r == _do_curls(tgz[k].f, tgz[k].s, outs)
                         IN  /\ tgz' = [tgz EXCEPT ![k] = [f |-> r.f, s |-> r.s]]
                             /\ net' = Bump(net, r.net)
                             /\ IF r.ok THEN Step(next) ELSE Fail(s)
    /\ UNCHANGED <<dirs, envs, cfg, builds, snap, runs>>
    /\ InstallFrame

\* _try_binary: [[ version =~ ALLOWED_UPSTREAM_VERSION_RE ]], _binary
_try_binary ==
    /\ pc = "PrecompiledBinary"
    /\ Download("PrecompiledBinary", "bin", SeqsUpTo(Upstream, MaxUrls), "binary_extract")

\* _try_source: [[ version =~ ALLOWED_UPSTREAM_VERSION_RE ]], _source (two URLs)
_try_source ==
    /\ pc = "SourceBuild"
    /\ Download("SourceBuild", "src", [1..2 -> Upstream], "source_extract")

\* _extract "file" "dir" || return 1
Extract(s, k, done, next) ==
    /\ \E r \in {"ok", "error"} :
          IF r = "ok" /\ tgz[k].f = "good"
          THEN SetDir(k, done) /\ Step(next)
          ELSE /\ \E left \in Leftover(dirs[cfg.prefix][k]) : SetDir(k, left)
               /\ Fail(s)
    /\ UNCHANGED <<envs, tgz, cfg, tried, net, builds, snap, runs>>
    /\ InstallFrame

\* A binary release unpacks to a complete tree; whether its bin/go runs on
\* this host is the release's business when the target is not the host.
_try_binary_extract ==
    /\ pc = "binary_extract"
    /\ \E d \in (IF cross THEN {"ok", "broken"} ELSE {"ok"}) :
          Extract("PrecompiledBinary", "bin", d, "binary_env")

\* A source release has no bin/go: one that is there stays.
_try_source_extract ==
    /\ pc = "source_extract"
    /\ Extract("SourceBuild", "src",
               IF dirs[cfg.prefix]["src"] \in {"broken", "ok"}
               THEN dirs[cfg.prefix]["src"] ELSE "tree",
               "source_compile")

\* _compile "dir" || return 1: the bootstrap toolchain may be downloaded,
\* then make.bash runs.
Compile(s, k, next) ==
    /\ builds' = Bump(builds, 1)
    /\ \E boot \in {0, 1} :
          /\ boot = 1 => transport
          /\ net' = Bump(net, boot)
    /\ \E r \in {"ok", "error"} :
          IF r = "ok"
          THEN SetDir(k, "ok") /\ Step(next)
          ELSE /\ \E left \in Leftover(dirs[cfg.prefix][k]) : SetDir(k, left)
               /\ Fail(s)
    /\ UNCHANGED <<envs, tgz, cfg, tried, snap, runs>>
    /\ InstallFrame

_try_source_compile == pc = "source_compile" /\ Compile("SourceBuild", "src", "source_race")

_try_git_compile == pc = "git_compile" /\ Compile("GitBuild", "git", "git_race")

\* _try_install_race "dir" || return 1
InstallRace(s, next) ==
    /\ \E r \in {"ok", "error"} : IF r = "ok" THEN Step(next) ELSE Fail(s)
    /\ UNCHANGED <<dirs, envs, tgz, cfg, tried, net, builds, snap, runs>>
    /\ InstallFrame

_try_source_race == pc = "source_race" /\ InstallRace("SourceBuild", "source_env")

_try_git_race == pc = "git_race" /\ InstallRace("GitBuild", "git_env")

\* _env "dir" | tee "env" || return 1: tee truncates the descriptor, _env
\* writes it once `go version` ran.
WriteEnv(s, k) ==
    /\ IF EnvRuns(dirs[cfg.prefix][k])
       THEN envs' = [envs EXCEPT ![k] = "full"] /\ Succeed(s)
       ELSE envs' = [envs EXCEPT ![k] = "empty"] /\ Fail(s)
    /\ UNCHANGED <<dirs, tgz, cfg, tried, net, builds, snap, runs>>
    /\ InstallFrame

_try_binary_env == pc = "binary_env" /\ WriteEnv("PrecompiledBinary", "bin")

_try_source_env == pc = "source_env" /\ WriteEnv("SourceBuild", "src")

_try_git_env == pc = "git_env" /\ WriteEnv("GitBuild", "git")

\* _try_git: _checkout "version" "dir" >/dev/null || return 1.  Nothing is
\* fetched here; without a clone every git command fails.
_try_git ==
    /\ pc = "GitBuild"
    /\ tried' = Append(tried, "GitBuild")
    /\ \E r \in {"ok", "error"} :
          IF r = "ok" /\ dirs[cfg.prefix]["git"] # "none"
          THEN Step("git_compile") ELSE Fail("GitBuild")
    /\ UNCHANGED <<dirs, envs, tgz, cfg, net, builds, snap, runs>>
    /\ InstallFrame

\* The invocation is killed: what the step it was in had begun stays.
Kill ==
    /\ pc \notin {"idle", "done"}
    /\ pc' = "done" /\ exit' = 137 /\ okStrat' = okStrat
    /\ CASE pc \in {"binary_extract", "source_extract", "source_compile", "git_compile"} ->
              LET k == CASE pc = "binary_extract" -> "bin"
                         [] pc = "git_compile" -> "git"
                         [] OTHER -> "src"
              IN  /\ \E left \in Leftover(dirs[cfg.prefix][k]) \cup {dirs[cfg.prefix][k]} :
                        SetDir(k, left)
                  /\ UNCHANGED <<envs, tgz>>
         [] pc \in {"binary_env", "source_env", "git_env"} ->
              LET k == CASE pc = "binary_env" -> "bin"
                         [] pc = "git_env" -> "git"
                         [] OTHER -> "src"
              IN  /\ \E e \in {envs[k], "empty"} : envs' = [envs EXCEPT ![k] = e]
                  /\ UNCHANGED <<dirs, tgz>>
         [] pc \in {"PrecompiledBinary", "SourceBuild"} ->
              LET k == IF pc = "PrecompiledBinary" THEN "bin" ELSE "src"
              IN  /\ \E f \in {tgz[k].f, "partial"} : tgz' = [tgz EXCEPT ![k].f = f]
                  /\ UNCHANGED <<dirs, envs>>
         [] OTHER -> UNCHANGED <<dirs, envs, tgz>>
    /\ UNCHANGED <<cfg, tried, net, builds, snap, runs>>
    /\ InstallFrame

\* The other specifications' variables, parked.
FetchIdle == fpc = "off" /\ fIn = "off" /\ fOuts = <<>> /\ fRes = "off"

CatIdle ==
    /\ now = 0 /\ hostos = "off" /\ ttl = 0
    /\ known = "off" /\ knownNew = "off" /\ dlfile = "off" /\ everKnown = FALSE
    /\ cpc = "off" /\ cforce = "off" /\ chk = "off" /\ cview = "off" /\ cruns = 0

ResIdle == rpc = "off" /\ rSort = "off" /\ rRemote = {} /\ rBase = <<>> /\ rRes = "off"

CheckoutIdle == kpc = "off" /\ kIn = "off" /\ kRes = "off"

AliasIdle == ehost = "off" /\ edesc = "off" /\ ealias = "off" /\ elatest = "off" /\ esteps = 0

QueryIdle ==
    /\ qenv = "off" /\ qstable = "off" /\ qold = "off" /\ qknown = "off"
    /\ qres = "off" /\ qn = 0

RaceIdle ==
    /\ xpc = "off" /\ xtgz = "off" /\ xsha = "off" /\ xdir = "off" /\ xenv = "off"
    /\ xlink = "off"

FlowIdle ==
    /\ gpc = "off" /\ gcfg = "off" /\ gver = <<>> /\ grepo = "off" /\ ginst = {}
    /\ gops = <<>> /\ gexit = -1 /\ gn = 0

CallsIdle == callstack = <<>> /\ calls = 0 /\ entries = 0

NativeIdle == ntpc = "off" /\ ntIn = <<>> /\ ntOut = <<>>

LateIdle == FlowIdle /\ CallsIdle /\ NativeIdle

SideIdle == CheckoutIdle /\ AliasIdle /\ QueryIdle /\ RaceIdle /\ LateIdle

InstallIdle ==
    /\ dirs = "off" /\ envs = "off" /\ tgz = "off" /\ transport = FALSE /\ cross = FALSE
    /\ pc = "off" /\ cfg = "off" /\ tried = <<>> /\ okStrat = "off"
    /\ net = 0 /\ builds = 0 /\ exit = -1 /\ snap = "off" /\ runs = 0

\* Nothing installed yet, or the one binary release installed under prefix A
\* by an earlier invocation.
Init ==
    /\ \E installed \in BOOLEAN :
          /\ dirs = [p \in Prefixes |-> [k \in Kinds |->
                       IF installed /\ p = "A" /\ k = "bin" THEN "ok" ELSE "none"]]
          /\ envs = [k \in Kinds |-> IF installed /\ k = "bin" THEN "full" ELSE "none"]
          /\ tgz = [k \in {"bin", "src"} |->
                       IF installed /\ k = "bin" THEN [f |-> "good", s |-> Sha256("good")]
                       ELSE [f |-> "none", s |-> "none"]]
    /\ transport \in BOOLEAN
    /\ cross \in BOOLEAN
    /\ pc = "idle"
    /\ cfg = [mode |-> "auto", force |-> FALSE, kind |-> "exact", allowed |-> TRUE, prefix |-> "A"]
    /\ tried = <<>> /\ okStrat = "none" /\ exit = -1
    /\ net = 0 /\ builds = 0 /\ runs = 0
    /\ snap = [dir |-> "none", env |-> "none", cut |-> FALSE]
    /\ FetchIdle /\ CatIdle /\ ResIdle /\ SideIdle

Next ==
    \/ Start
    \/ _assert_version_given
    \/ _wipe_version
    \/ _wipe_version_env
    \/ _try_existing_binary
    \/ _try_existing_source
    \/ _try_binary
    \/ _try_binary_extract
    \/ _try_binary_env
    \/ _try_source
    \/ _try_source_extract
    \/ _try_source_compile
    \/ _try_source_race
    \/ _try_source_env
    \/ _try_git
    \/ _try_git_compile
    \/ _try_git_race
    \/ _try_git_env
    \/ Kill

Spec == Init /\ [][Next]_vars

(***************************************************************************)
(* Properties of the install flow (specification Spec).                    *)
(***************************************************************************)
Finished == pc = "done" /\ exit # 137

BinDir == dirs[cfg.prefix]["bin"]

Building == {"PrecompiledBinary", "SourceBuild", "GitBuild"}

KindOf(s) ==
    CASE s \in {"ExistingBinary", "PrecompiledBinary"} -> "bin"
      [] s \in {"ExistingSource", "SourceBuild"} -> "src"
      [] s = "GitBuild" -> "git"

\* The order the specification gives for each mode.
C1_Order(mode) ==
    CASE mode = "binary" -> <<"ExistingBinary", "PrecompiledBinary">>
      [] mode = "source" -> <<"ExistingSource", "SourceBuild", "GitBuild">>
      [] mode = "git"    -> <<"GitBuild">>
      [] mode = "auto"   -> <<"ExistingBinary", "ExistingSource", "PrecompiledBinary",
                              "SourceBuild", "GitBuild">>

\* C1: in every mode the strategies entered so far are an initial part of the
\* mode's list, in the list's order, so none outside the list is entered and
\* none is entered out of turn; once a strategy succeeded it is the last one
\* entered and the invocation is over.
C1_DispatchOrder ==
    pc # "idle" =>
        /\ IsPrefix(tried, C1_Order(cfg.mode))
        /\ okStrat # "none" => (pc = "done" /\ tried # <<>> /\ Last(tried) = okStrat)

\* C1 witness: auto went through its whole list and the last strategy, the
\* build from the git checkout, succeeded.
C1_Witness ==
    /\ pc = "done" /\ cfg.mode = "auto" /\ okStrat = "GitBuild"
    /\ tried = C1_Order("auto")

\* C2, as stated: an invocation that reached the dispatch ends with status 1
\* exactly when every strategy of the mode was tried and failed.
C2_ExitOneIffAllFailed ==
    (Finished /\ tried # <<>>) =>
        (exit = 1 <=> (okStrat = "none" /\ tried = C1_Order(cfg.mode)))

\* C2, amended: an invocation that reached the dispatch and was not killed
\* ends with status 0 or 1; with 0 exactly when the strategy entered last
\* returned success, which for a downloading or building strategy means a
\* directory whose go runs and a written descriptor; with 1 exactly when no
\* strategy succeeded, and then either every strategy of the mode was tried,
\* or no transport tool is installed and the strategy entered last is a
\* downloading one, whose fetch ended the script before any later strategy.
C2_ExitStatus ==
    (Finished /\ tried # <<>>) =>
        /\ exit \in {0, 1}
        /\ exit = 0 <=> okStrat # "none"
        /\ okStrat # "none" => okStrat = Last(tried)
        /\ okStrat \in Building =>
              dirs[cfg.prefix][KindOf(okStrat)] = "ok" /\ envs[KindOf(okStrat)] = "full"
        /\ okStrat = "none" =>
              \/ tried = C1_Order(cfg.mode)
              \/ ~transport /\ Last(tried) \in {"PrecompiledBinary", "SourceBuild"}

\* C2 witness: in auto the release could not be fetched although a transport
\* tool is there, the orchestrator advanced and the source build succeeded.
C2_Witness ==
    /\ Finished /\ cfg.mode = "auto" /\ transport
    /\ tried = <<"ExistingBinary", "ExistingSource", "PrecompiledBinary", "SourceBuild">>
    /\ okStrat = "SourceBuild" /\ exit = 0

RecordAtStart == snap.dir = "ok" /\ snap.env = "full"

Reused ==
    /\ net = 0 /\ builds = 0
    /\ BinDir = snap.dir /\ envs["bin"] = snap.env
    /\ Finished => (exit = 0 /\ okStrat = "ExistingBinary" /\ tried = <<"ExistingBinary">>)

\* C9, as stated: an invocation in mode auto with an exact version that
\* starts with a valid binary record never uses the network, never builds,
\* never changes the record and ends in success through ExistingBinary.
C9_ReuseAlways ==
    (pc # "idle" /\ cfg.mode = "auto" /\ cfg.kind = "exact" /\ RecordAtStart) => Reused

\* C9, amended: the same, for an invocation without the force flag.
C9_ReuseUnlessForced ==
    (pc # "idle" /\ cfg.mode = "auto" /\ cfg.kind = "exact" /\ ~cfg.force /\ RecordAtStart)
        => Reused

\* C9 witness: such an invocation ended.
C9_Witness ==
    /\ Finished /\ cfg.mode = "auto" /\ cfg.kind = "exact" /\ ~cfg.force /\ RecordAtStart
    /\ okStrat = "ExistingBinary"

\* C10: a record is reused only when the go of its directory runs.
C10_ReusedBinaryRuns ==
    /\ okStrat = "ExistingBinary" => dirs[cfg.prefix]["bin"] = "ok"
    /\ okStrat = "ExistingSource" => dirs[cfg.prefix]["src"] = "ok"

StrategyEntries == {"ExistingBinary", "ExistingSource", "PrecompiledBinary",
                    "SourceBuild", "GitBuild"}

\* The wipe step is over and no strategy has been entered.
AfterWipe == pc \in StrategyEntries /\ tried = <<>>

\* C11: a forced invocation that started with a binary record has, when the
\* wipe step is over, neither the install directory nor the descriptor.
C11_WipeRemovesBoth ==
    (AfterWipe /\ cfg.force /\ snap.dir # "none" /\ snap.env = "full") =>
        (BinDir = "none" /\ envs["bin"] = "none")

\* Exactly one of install directory and descriptor was there at the start.
HalfRecord == (snap.dir = "none") # (snap.env = "none")

InitFetch ==
    /\ fpc = "call"
    /\ fIn \in [f : {"none", "partial"} \cup Contents, s : {"none"} \cup Digests]
    /\ fOuts \in SeqsUpTo(Outcome, MaxCand)
    /\ fRes = [ok |-> FALSE, f |-> "none", s |-> "none", tried |-> <<>>, net |-> 0]
    /\ InstallIdle /\ CatIdle /\ ResIdle /\ SideIdle

CallDoCurls ==
    /\ fpc = "call"
    /\ fRes' = _do_curls(fIn.f, fIn.s, fOuts)
    /\ fpc' = "returned"
    /\ UNCHANGED <<fIn, fOuts, installVars, catVars, resVars, sideVars>>

NextFetch == CallDoCurls

SpecFetch == InitFetch /\ [][NextFetch]_vars

\* The candidate delivered an archive and either no digest or its own.
Acceptable(o) == o.art \in Contents /\ (o.dig = "fail" \/ o.dig = Sha256(o.art))

\* The candidate delivered an archive and another archive's digest.
Mismatched(o) == o.art \in Contents /\ o.dig \in Digests /\ o.dig # Sha256(o.art)

FirstAcceptable == {k \in DOMAIN fOuts :
                      Acceptable(fOuts[k]) /\ \A j \in 1..(k - 1) : ~Acceptable(fOuts[j])}

Downloading == fpc = "returned" /\ ~Sha256sumCheck(fIn.f, fIn.s)

\* C7: when the local file is not already verified, the candidates tried are
\* 1, 2, ... in list order without a gap; if some candidate is acceptable
\* (archive delivered, digest unreachable or matching) the fetch succeeds at
\* the first such candidate, whatever mismatches came before it, stops there
\* and keeps that candidate's archive; a success is never that of a
\* candidate whose digest was fetched and did not match.
C7_CandidatesInOrder ==
    Downloading =>
        /\ fRes.tried = [i \in 1..Len(fRes.tried) |-> i]
        /\ \A k \in FirstAcceptable :
              fRes.ok /\ Len(fRes.tried) = k /\ fRes.f = fOuts[k].art
        /\ fRes.ok => (fRes.tried # <<>> /\ ~Mismatched(fOuts[Last(fRes.tried)]))

\* C7 witness: the first candidate's digest did not match and a later
\* candidate made the fetch succeed.
C7_Witness ==
    /\ Downloading /\ Mismatched(fOuts[1])
    /\ fRes.ok /\ Len(fRes.tried) > 1

\* C8: when the local file is not already verified and no candidate is
\* acceptable, every candidate was tried, the fetch fails and no archive
\* file remains.
C8_ExhaustedRemovesFile ==
    (Downloading /\ FirstAcceptable = {}) =>
        /\ ~fRes.ok
        /\ Len(fRes.tried) = Len(fOuts)
        /\ fRes.f = "none"

\* C8 witness: a file was there, the last candidate was downloaded and
\* failed its digest, and the fetch failed.
C8_Witness ==
    /\ Downloading /\ FirstAcceptable = {} /\ fIn.f # "none"
    /\ Mismatched(fOuts[Len(fOuts)]) /\ ~fRes.ok

(***************************************************************************)
(* The known-versions cache (specification SpecCatalog).                   *)
(*                                                                         *)
(* Two invocations share ${GIMME_VERSION_PREFIX}/known-versions.txt, its   *)
(* .new neighbour and ${GIMME_TMP}/known-dl.  A catalog get is             *)
(* known="$(_update_remote_known_list_if_needed)" followed by the read     *)
(* loop of _resolve_version; inside the command substitution errexit is    *)
(* off, so no failing command ends the function.  A transport tool is      *)
(* installed.  A file is "none" or a record of its content ("full": the    *)
(* whole catalog, "part": a transfer that broke off, "empty") and its      *)
(* modification time.  The clock counts seconds from Epoch, so that, as    *)
(* on a real host, the date exceeds every GIMME_KNOWN_CACHE_MAX.           *)
(***************************************************************************)
Procs == {1, 2}

HostOSes == {"linux", "darwin", "other"}

Epoch == MaxTTL + 1

NoFile == [c |-> "none", mtime |-> 0]

NoChk == [valid |-> FALSE, existed |-> FALSE, age |-> 0, force |-> FALSE,
          refresh |-> FALSE, prev |-> NoFile, fetch |-> "none"]

NoView == [seen |-> "none", existedBefore |-> FALSE]

\* _last_mod_timestamp: stat prints the time on darwin, *bsd and linux; the
\* case has no other branch, and an empty ts is 0 inside (( )).
_last_mod_timestamp(file, os) == IF os \in {"linux", "darwin"} THEN file.mtime ELSE 0

\* _file_older_than_secs: a missing file is older; else (date - ts) > age_secs.
_file_older_than_secs(file, age_secs, os, date) ==
    IF file.c = "none" /\ os \in {"linux", "darwin"} THEN TRUE
    ELSE (date - _last_mod_timestamp(file, os)) > age_secs

\* [[ -e list ]] && ! ((force_known_update)) && ! _file_older_than_secs ...
CacheHit(file, force, age_secs, os, date) ==
    file.c # "none" /\ ~force /\ ~_file_older_than_secs(file, age_secs, os, date)

CatFrame == UNCHANGED <<installVars, fetchVars, resVars, sideVars, hostos, ttl>>

InitCatalog ==
    /\ now = Epoch
    /\ hostos \in HostOSes
    /\ ttl \in 1..MaxTTL
    /\ known \in {NoFile, [c |-> "full", mtime |-> Epoch]}
    /\ knownNew = NoFile
    /\ dlfile = "none"
    /\ everKnown = (known # NoFile)
    /\ cpc = [p \in Procs |-> "idle"]
    /\ cforce = [p \in Procs |-> FALSE]
    /\ chk = [p \in Procs |-> NoChk]
    /\ cview = [p \in Procs |-> NoView]
    /\ cruns = [p \in Procs |-> 0]
    /\ InstallIdle /\ FetchIdle /\ ResIdle /\ SideIdle

\* Time passes.
Tick ==
    /\ now < Epoch + MaxTime
    /\ now' = now + 1
    /\ UNCHANGED <<known, knownNew, dlfile, everKnown, cpc, cforce, chk, cview, cruns>>
    /\ CatFrame

\* An invocation asks for the catalog, with or without --force-known-update.
CatalogGet(p) ==
    /\ cpc[p] = "idle"
    /\ cruns[p] < MaxGets
    /\ cruns' = [cruns EXCEPT ![p] = @ + 1]
    /\ \E f \in BOOLEAN : cforce' = [cforce EXCEPT ![p] = f]
    /\ cpc' = [cpc EXCEPT ![p] = "check"]
    /\ chk' = [chk EXCEPT ![p] = NoChk]
    /\ cview' = [cview EXCEPT ![p] = NoView]
    /\ UNCHANGED <<now, known, knownNew, dlfile, everKnown>>
    /\ CatFrame

\* The test at the head of _update_remote_known_list_if_needed.
CatalogCheck(p) ==
    /\ cpc[p] = "check"
    /\ LET hit == CacheHit(known, cforce[p], ttl, hostos, now)
       IN  /\ chk' = [chk EXCEPT ![p] =
                        [valid |-> TRUE, existed |-> known.c # "none",
                         age |-> IF known.c # "none" THEN now - known.mtime ELSE 0,
                         force |-> cforce[p], refresh |-> ~hit, prev |-> known,
                         fetch |-> "none"]]
           /\ cpc' = [cpc EXCEPT ![p] = IF hit THEN "read" ELSE "curl"]
    /\ UNCHANGED <<now, known, knownNew, dlfile, everKnown, cforce, cview, cruns>>
    /\ CatFrame

\* _do_curl "${GIMME_LIST_KNOWN}" "${dlfile}": its status is not looked at.
CatalogCurl(p) ==
    /\ cpc[p] = "curl"
    /\ \E r \in {"ok", "part", "fail"} :
          /\ dlfile' = CASE r = "ok" -> "full" [] r = "part" -> "part" [] OTHER -> dlfile
          /\ chk' = [chk EXCEPT ![p].fetch = r]
    /\ cpc' = [cpc EXCEPT ![p] = "parse"]
    /\ UNCHANGED <<now, known, knownNew, everKnown, cforce, cview, cruns>>
    /\ CatFrame

\* while read ... done <dlfile | _version_sort | uniq >list.new: without a
\* download file the loop does not run and list.new is created empty.
CatalogParse(p) ==
    /\ cpc[p] = "parse"
    /\ knownNew' = [c |-> IF dlfile = "none" THEN "empty" ELSE dlfile, mtime |-> now]
    /\ cpc' = [cpc EXCEPT ![p] = "rm"]
    /\ UNCHANGED <<now, known, dlfile, everKnown, cforce, chk, cview, cruns>>
    /\ CatFrame

\* rm -f "${list}"
CatalogRm(p) ==
    /\ cpc[p] = "rm"
    /\ known' = NoFile
    /\ cpc' = [cpc EXCEPT ![p] = "mv"]
    /\ UNCHANGED <<now, knownNew, dlfile, everKnown, cforce, chk, cview, cruns>>
    /\ CatFrame

\* mv "${list}.new" "${list}": fails when the other invocation moved it.
CatalogMv(p) ==
    /\ cpc[p] = "mv"
    /\ IF knownNew # NoFile
       THEN known' = knownNew /\ knownNew' = NoFile /\ everKnown' = TRUE
       ELSE UNCHANGED <<known, knownNew, everKnown>>
    /\ cpc' = [cpc EXCEPT ![p] = "cleanup"]
    /\ UNCHANGED <<now, dlfile, cforce, chk, cview, cruns>>
    /\ CatFrame

\* rm -f "${dlfile}"; echo "${list}"
CatalogCleanup(p) ==
    /\ cpc[p] = "cleanup"
    /\ dlfile' = "none"
    /\ cpc' = [cpc EXCEPT ![p] = "read"]
    /\ UNCHANGED <<now, known, knownNew, everKnown, cforce, chk, cview, cruns>>
    /\ CatFrame

\* while read -r ver ... done <"$known"
CatalogRead(p) ==
    /\ cpc[p] = "read"
    /\ cview' = [cview EXCEPT ![p] =
                   [seen |-> IF known = NoFile THEN "absent" ELSE known.c,
                    existedBefore |-> everKnown]]
    /\ cpc' = [cpc EXCEPT ![p] = "idle"]
    /\ UNCHANGED <<now, known, knownNew, dlfile, everKnown, cforce, chk, cruns>>
    /\ CatFrame

NextCatalog ==
    \/ Tick
    \/ \E p \in Procs :
          \/ CatalogGet(p)
          \/ CatalogCheck(p)
          \/ CatalogCurl(p)
          \/ CatalogParse(p)
          \/ CatalogRm(p)
          \/ CatalogMv(p)
          \/ CatalogCleanup(p)
          \/ CatalogRead(p)

SpecCatalog == InitCatalog /\ [][NextCatalog]_vars

\* C4: a get that finds the snapshot, not older than the TTL, without the
\* force flag, does not refresh.
C4_FreshIsCached ==
    \A p \in Procs :
        (chk[p].valid /\ chk[p].existed /\ chk[p].age <= ttl /\ ~chk[p].force)
            => ~chk[p].refresh

\* C5: when no other invocation touched the cache, a refresh whose fetch
\* failed or broke off, once past its replacement step, has left the
\* content of the snapshot it found.
C5_FailedFetchKeepsSnapshot ==
    \A p \in Procs :
        (/\ cpc[p] \in {"cleanup", "read"}
         /\ chk[p].valid /\ chk[p].refresh /\ chk[p].existed
         /\ chk[p].fetch \in {"part", "fail"}
         /\ \A q \in Procs \ {p} : cruns[q] = 0)
            => known.c = chk[p].prev.c

\* C6: once the snapshot existed, a reader finds the path present.
C6_ReaderFindsSnapshot ==
    \A p \in Procs : cview[p].existedBefore => cview[p].seen # "absent"

(***************************************************************************)
(* _version_sort and _resolve_version (specification SpecResolve).         *)
(*                                                                         *)
(* A version is the sequence of its characters.  The catalog page lists a  *)
(* set of versions; the snapshot is that set after _version_sort | uniq,   *)
(* and the resolver scans the snapshot.  _version_sort is sort             *)
(* --version-sort where sort has it and the sed | sort -g | sed pipeline   *)
(* elsewhere.                                                              *)
(***************************************************************************)
Digits == <<"0", "1", "2", "3", "4", "5", "6", "7", "8", "9">>

IsDigit(c) == c \in Range(Digits)

DigitVal(c) == (CHOOSE i \in DOMAIN Digits : Digits[i] = c) - 1

\* The characters of the modelled versions, in byte order.
Bytes == <<".", "0", "1", "2", "3", "4", "5", "6", "7", "8", "9", "c", "r">>

Code(c) == CHOOSE i \in DOMAIN Bytes : Bytes[i] = c

\* Byte-wise comparison of two lines: sort's last resort.
RECURSIVE BytesLess(_, _)
BytesLess(a, b) ==
    IF a = <<>> THEN b # <<>>
    ELSE IF b = <<>> THEN FALSE
    ELSE IF Head(a) # Head(b) THEN Code(Head(a)) < Code(Head(b))
    ELSE BytesLess(Tail(a), Tail(b))

\* Index of the first character at or after i that is not a digit.
RECURSIVE DigitsEnd(_, _)
DigitsEnd(s, i) == IF i <= Len(s) /\ IsDigit(s[i]) THEN DigitsEnd(s, i + 1) ELSE i

\* Value of the digits s[i..j-1].
RECURSIVE NumVal(_, _, _)
NumVal(s, i, j) == IF i >= j THEN 0 ELSE NumVal(s, i, j - 1) * 10 + DigitVal(s[j - 1])

RECURSIVE Pow10(_)
Pow10(n) == IF n = 0 THEN 1 ELSE 10 * Pow10(n - 1)

\* sed -E 's/\.([0-9]{k}(\.|$))/.<zeros>\1/g' from position i on: the match
\* takes the dot that follows the digits, so the scan goes on behind it.
RECURSIVE SedPad(_, _, _, _)
SedPad(s, i, k, zeros) ==
    IF i > Len(s) THEN <<>>
    ELSE IF /\ s[i] = "."
            /\ i + k <= Len(s)
            /\ \A j \in 1..k : IsDigit(s[i + j])
            /\ (i + k = Len(s) \/ s[i + k + 1] = ".")
         THEN <<".">> \o zeros \o SubSeq(s, i + 1, i + k) \o
              (IF i + k = Len(s) THEN <<>>
               ELSE <<".">> \o SedPad(s, i + k + 2, k, zeros))
         ELSE <<s[i]>> \o SedPad(s, i + 1, k, zeros)

\* sed -E 's/\.([0-9](\.|$))/.00\1/g; s/\.([0-9][0-9](\.|$))/.0\1/g'
Pad(s) == SedPad(SedPad(s, 1, 1, <<"0", "0">>), 1, 2, <<"0">>)

RECURSIVE SkipZeros(_, _)
SkipZeros(s, i) == IF i <= Len(s) /\ s[i] = "0" THEN SkipZeros(s, i + 1) ELSE i

\* sed 's/\.00*/./g'
RECURSIVE Unpad(_, _)
Unpad(s, i) ==
    IF i > Len(s) THEN <<>>
    ELSE IF s[i] = "." /\ i < Len(s) /\ s[i + 1] = "0"
         THEN <<".">> \o Unpad(s, SkipZeros(s, i + 1))
         ELSE <<s[i]>> \o Unpad(s, i + 1)

\* sort --general-numeric-sort: the line's leading number, digits with an
\* optional fraction, as the pair <<integer part, fraction in millionths>>.
GKey(s) ==
    LET e == DigitsEnd(s, 1)
        f == IF e <= Len(s) /\ s[e] = "." THEN DigitsEnd(s, e + 1) ELSE e
        n == IF f > e THEN f - e - 1 ELSE 0
    IN  <<NumVal(s, 1, e),
          IF n = 0 THEN 0 ELSE NumVal(s, e + 1, f) * Pow10(6 - n)>>

GLess(a, b) ==
    LET ka == GKey(a)
        kb == GKey(b)
    IN  \/ ka[1] < kb[1]
        \/ ka[1] = kb[1] /\ ka[2] < kb[2]
        \/ ka = kb /\ BytesLess(a, b)

\* sort --version-sort (filevercmp): runs of other characters compare by
\* order (end of string 0, a letter its code, any other character above the
\* letters), runs of digits by value.
Order(s, i) ==
    IF i > Len(s) \/ IsDigit(s[i]) THEN 0
    ELSE IF s[i] = "." THEN 100 + Code(s[i]) ELSE Code(s[i])

RECURSIVE VerCmp(_, _, _, _)
VerCmp(a, i, b, j) ==
    IF i > Len(a) /\ j > Len(b) THEN 0
    ELSE IF (i <= Len(a) /\ ~IsDigit(a[i])) \/ (j <= Len(b) /\ ~IsDigit(b[j]))
         THEN IF Order(a, i) # Order(b, j)
              THEN (IF Order(a, i) < Order(b, j) THEN -1 ELSE 1)
              ELSE VerCmp(a, i + 1, b, j + 1)
         ELSE LET ea == DigitsEnd(a, i)
                  eb == DigitsEnd(b, j)
                  va == NumVal(a, i, ea)
                  vb == NumVal(b, j, eb)
              IN  IF va # vb THEN (IF va < vb THEN -1 ELSE 1)
                  ELSE VerCmp(a, ea, b, eb)

VLess(a, b) ==
    LET c == VerCmp(a, 1, b, 1)
    IN  c < 0 \/ (c = 0 /\ BytesLess(a, b))

\* The lines of S in ascending order.
RECURSIVE SortLines(_, _)
SortLines(S, how) ==
    IF S = {} THEN <<>>
    ELSE LET m == CHOOSE x \in S : \A y \in S \ {x} :
                      IF how = "gnu" THEN VLess(x, y) ELSE GLess(x, y)
         IN  <<m>> \o SortLines(S \ {m}, how)

\* uniq
RECURSIVE Uniq(_)
Uniq(s) ==
    IF Len(s) < 2 THEN s
    ELSE IF s[1] = s[2] THEN Uniq(Tail(s))
    ELSE <<s[1]>> \o Uniq(Tail(s))

\* _version_sort | uniq
_version_sort(S, how) ==
    IF how = "gnu" THEN Uniq(SortLines(S, how))
    ELSE LET sorted == SortLines({Pad(v) : v \in S}, how)
         IN  Uniq([i \in DOMAIN sorted |-> Unpad(sorted[i], 1)])

\* The versions a catalog page of the model may list.
Universe ==
    { <<"1", ".", "9">>,
      <<"1", ".", "9", ".", "0">>,
      <<"1", ".", "9", ".", "1">>,
      <<"1", ".", "9", ".", "2">>,
      <<"1", ".", "9", ".", "1", "0">>,
      <<"1", ".", "9", "r", "c", "1">>,
      <<"1", ".", "9", "0">>,
      <<"1", ".", "2", "1", ".", "0">>,
      <<"1", ".", "2", "1", ".", "2">>,
      <<"1", ".", "2", "1", ".", "1", "0">> }

\* The base of the specifiers base.x the model resolves.
Bases == { <<"1", ".", "9">>, <<"1", ".", "2", "1">>, <<"1", ".", "8">> }

Catalogs == {S \in SUBSET Universe : Cardinality(S) <= MaxCat}

\* [[ "${ver}" =~ ^base(\.[0-9.]+)?$ ]] with the dots of base escaped
Search(ver, base) ==
    \/ ver = base
    \/ /\ Len(ver) > Len(base) + 1
       /\ SubSeq(ver, 1, Len(base)) = base
       /\ ver[Len(base) + 1] = "."
       /\ \A k \in (Len(base) + 2)..Len(ver) : IsDigit(ver[k]) \/ ver[k] = "."

\* while read -r ver; do [[ ... ]] || continue; last="${ver}"; done
RECURSIVE LastMatch(_, _, _)
LastMatch(list, base, last) ==
    IF list = <<>> THEN last
    ELSE LastMatch(Tail(list), base, IF Search(Head(list), base) THEN Head(list) ELSE last)

\* _resolve_version "base.x": the last match, or the specifier and status 2.
_resolve_version(remote, base, how) ==
    LET list == _version_sort(remote, how)
        last == LastMatch(list, base, <<>>)
    IN  IF last # <<>> THEN [status |-> 0, out |-> last]
        ELSE [status |-> 2, out |-> base \o <<".", "x">>]

InitResolve ==
    /\ rpc = "call"
    /\ rSort \in {"gnu", "fallback"}
    /\ rRemote \in Catalogs
    /\ rBase \in Bases
    /\ rRes = [status |-> -1, out |-> <<>>]
    /\ InstallIdle /\ FetchIdle /\ CatIdle /\ SideIdle

CallResolveVersion ==
    /\ rpc = "call"
    /\ rRes' = _resolve_version(rRemote, rBase, rSort)
    /\ rpc' = "returned"
    /\ UNCHANGED <<rSort, rRemote, rBase, installVars, fetchVars, catVars, sideVars>>

NextResolve == CallResolveVersion

SpecResolve == InitResolve /\ [][NextResolve]_vars

\* The numeric components of the digits-and-dots string s[i..].
RECURSIVE Components(_, _)
Components(s, i) ==
    IF i > Len(s) THEN <<>>
    ELSE LET e == DigitsEnd(s, i)
         IN  <<NumVal(s, i, e)>> \o Components(s, e + 1)

\* s is digits separated by single dots.
RECURSIVE IsNumeric(_, _)
IsNumeric(s, i) ==
    LET e == DigitsEnd(s, i)
    IN  e > i /\ (e > Len(s) \/ (s[e] = "." /\ e < Len(s) /\ IsNumeric(s, e + 1)))

\* The catalog versions that are base, or base, a dot and numeric components.
Matches(remote, base) ==
    {v \in remote :
        \/ v = base
        \/ /\ Len(v) > Len(base) + 1
           /\ SubSeq(v, 1, Len(base)) = base
           /\ v[Len(base) + 1] = "."
           /\ IsNumeric(v, Len(base) + 2)}

\* Component by component, a missing component being the smallest.
RECURSIVE NumLess(_, _)
NumLess(a, b) ==
    IF a = <<>> THEN b # <<>>
    ELSE IF b = <<>> THEN FALSE
    ELSE IF Head(a) # Head(b) THEN Head(a) < Head(b)
    ELSE NumLess(Tail(a), Tail(b))

Highest(S) == CHOOSE v \in S : \A w \in S \ {v} : NumLess(Components(w, 1), Components(v, 1))

\* C3: resolution of base.x returns the numerically highest catalog version
\* among those equal to base or made of base, a dot and numeric components,
\* and fails when there is none.
C3_HighestMatch ==
    rpc = "returned" =>
        IF Matches(rRemote, rBase) = {} THEN rRes.status # 0
        ELSE rRes.status = 0 /\ rRes.out = Highest(Matches(rRemote, rBase))

\* The same where sort has --version-sort.
C3_HighestMatchGnu == rSort = "gnu" => C3_HighestMatch

(***************************************************************************)
(* _checkout on its own (specification SpecCheckout): every reference of   *)
(* Refs against every repository, a repository being the set of arguments  *)
(* `git reset --hard` accepts and the outcomes of the two rev-parse calls. *)
(* A reference is the sequence of its characters; a git argument is the    *)
(* reference behind a one-element prefix.                                  *)
(***************************************************************************)
HexChars == {"0", "1", "2", "3", "4", "5", "6", "7", "8", "9",
             "a", "b", "c", "d", "e", "f"}

\* Mutation of HexCommit: only 8 characters and more make a commit.
HexCommitLong(spec) == Len(spec) >= 8 /\ \A i \in DOMAIN spec : spec[i] \in HexChars

\* [[ "${spec}" =~ ^[0-9a-f]{6,}$ ]]
HexCommit(spec) == Len(spec) >= 6 /\ \A i \in DOMAIN spec : spec[i] \in HexChars

\* disallow='[@^~:{}]'; [[ "${spec}" =~ $disallow ]]
Disallowed(spec) == \E i \in DOMAIN spec : spec[i] \in {"@", "^", "~", ":", "{", "}"}

Sha6   == <<"a", "1", "b", "2", "c", "3">>
Sha8   == <<"d", "e", "a", "d", "b", "e", "e", "f">>
Sha5   == <<"a", "1", "b", "2", "c">>
ShaUp  == <<"A", "1", "B", "2", "C", "3">>
Tip    == <<"t", "i", "p">>
Master == <<"m", "a", "s", "t", "e", "r">>
V120   == <<"1", ".", "2", "0">>
HeadRef == <<"H", "E", "A", "D">>
At     == <<"@">>
HeadUp == HeadRef \o <<"^">>
Sha6Up == Sha6 \o <<"~", "1">>

Refs == {Sha6, Sha8, Sha5, ShaUp, Tip, Master, V120, At, HeadUp, Sha6Up}

OriginOf(spec)   == <<"origin/">> \o spec
OriginGoOf(spec) == <<"origin/go">> \o spec
TagOf(spec)      == <<"refs/tags/">> \o spec
TagGoOf(spec)    == <<"refs/tags/go">> \o spec
OriginMaster     == OriginOf(Master)

\* The object name `git rev-parse --verify "${spec}^{object}"` prints: 40
\* hexadecimal characters.
Rev == [i \in 1..40 |-> <<"7", "e", "5", "c", "3", "a", "1", "8">>[((i * 3) % 8) + 1]]

\* Mutation of Respell: "@" is handed to rev-parse as it was given.
RespellKept(spec) == spec

\* [spec == "@"] || spec="HEAD", inside the branch of the disallowed characters
Respell(spec) == IF Disallowed(spec) /\ spec = At THEN HeadRef ELSE spec

\* The arguments git may be handed for one reference.
ArgsOf(spec) == {spec, Respell(spec), OriginOf(spec), OriginGoOf(spec), OriginMaster,
                 TagOf(spec), TagGoOf(spec), Rev}

\* resets: the arguments `git reset --hard` succeeds on; parse: the first
\* rev-parse resolves the reference; short: the length of what the second
\* rev-parse prints (12, or more when 12 are ambiguous), 0 when it fails.
ReposOf(spec) == [resets : SUBSET ArgsOf(spec), parse : BOOLEAN, short : {0, 12, 13}]

Reset(arg)    == [cmd |-> "reset", arg |-> arg]
RevParse(arg) == [cmd |-> "rev-parse", arg |-> arg]

\* try_spec() { git -C "${godir}" reset -q --hard "$@" -- 2>/dev/null; }
try_spec(repo, arg) == arg \in repo.resets

\* Mutation of ProbeList: the tags are probed before the branches.
ProbeListTagsFirst(spec) ==
    <<TagOf(spec), TagGoOf(spec), OriginOf(spec), OriginGoOf(spec)>>
    \o (IF spec = Tip THEN <<OriginMaster>> ELSE <<>>)

\* The operands of the || chain, in the order they are written.
ProbeList(spec) ==
    <<OriginOf(spec), OriginGoOf(spec)>>
    \o (IF spec = Tip THEN <<OriginMaster>> ELSE <<>>)
    \o <<TagOf(spec), TagGoOf(spec)>>

\* try_spec a || try_spec b || ... || retval=1: the commands run, and
\* whether one of them succeeded.
RECURSIVE OrChain(_, _, _)
OrChain(list, repo, log) ==
    IF list = <<>> THEN [ok |-> FALSE, log |-> log]
    ELSE IF try_spec(repo, Head(list))
         THEN [ok |-> TRUE, log |-> Append(log, Reset(Head(list)))]
         ELSE OrChain(Tail(list), repo, Append(log, Reset(Head(list))))

\* try_spec origin/master && rev="$(git rev-parse --verify -q "${spec}^{object}")"
\*   && try_spec "${rev}" && git rev-parse --verify -q --short=12 "${rev}" || retval=1
RelativeFallback(spec, repo, log) ==
    LET l1 == Append(log, Reset(OriginMaster))
        l2 == Append(l1, RevParse(spec \o <<"^{object}">>))
        l3 == Append(l2, Reset(Rev))
        l4 == Append(l3, RevParse(Rev))
    IN  IF ~try_spec(repo, OriginMaster) THEN [status |-> 1, out |-> <<>>, log |-> l1]
        ELSE IF ~repo.parse THEN [status |-> 1, out |-> <<>>, log |-> l2]
        ELSE IF ~try_spec(repo, Rev) THEN [status |-> 1, out |-> <<>>, log |-> l3]
        ELSE IF repo.short = 0 THEN [status |-> 1, out |-> <<>>, log |-> l4]
        ELSE [status |-> 0, out |-> SubSeq(Rev, 1, repo.short), log |-> l4]

\* _checkout "version" "dir": the exit status, what it prints on stdout and
\* the git commands it ran.
_checkout(spec, repo) ==
    IF HexCommit(spec)
    THEN [status |-> IF spec \in repo.resets THEN 0 ELSE 1, out |-> <<>>,
          log |-> <<Reset(spec)>>]
    ELSE LET probe_named == ~Disallowed(spec)
             named == IF probe_named THEN OrChain(ProbeList(spec), repo, <<>>)
                      ELSE [ok |-> FALSE, log |-> <<>>]
         IN  IF named.ok THEN [status |-> 0, out |-> <<>>, log |-> named.log]
             ELSE RelativeFallback(Respell(spec), repo, named.log)

\* Mutation of ResolvedSha: the specifier is kept whatever checkout prints.
ResolvedShaKept(spec, r) == spec

\* _assert_version_given: if resolved_sha="$(_checkout ...)"; then
\*   if [[ -n "${resolved_sha}" ]]; then GIMME_GO_VERSION="${resolved_sha}"; fi
\* The value of GIMME_GO_VERSION after the call.
ResolvedSha(spec, r) == IF r.status = 0 /\ r.out # <<>> THEN r.out ELSE spec

InitCheckout ==
    /\ kpc = "call"
    /\ \E spec \in Refs : \E repo \in ReposOf(spec) : kIn = [spec |-> spec, repo |-> repo]
    /\ kRes = [status |-> -1, out |-> <<>>, log |-> <<>>, version |-> <<>>]
    /\ InstallIdle /\ FetchIdle /\ CatIdle /\ ResIdle /\ AliasIdle /\ QueryIdle /\ RaceIdle
    /\ LateIdle

CallCheckout ==
    /\ kpc = "call"
    /\ LET r == _checkout(kIn.spec, kIn.repo)
       IN  kRes' = [status |-> r.status, out |-> r.out, log |-> r.log,
                    version |-> ResolvedSha(kIn.spec, r)]
    /\ kpc' = "returned"
    /\ UNCHANGED <<kIn, installVars, fetchVars, catVars, resVars, aliasVars, queryVars,
                   raceVars, lateVars>>

NextCheckout == CallCheckout

SpecCheckout == InitCheckout /\ [][NextCheckout]_vars

\* References that are raw commit hashes, and references that are names.
HexRefs   == {Sha6, Sha8}
NamedRefs == {Sha5, ShaUp, Tip, Master, V120}

\* C13: for a lowercase hexadecimal reference of six characters or more,
\* checkout runs exactly one command, the hard reset to that reference, and
\* returns 0 exactly when that reset succeeds.
C13_HexIsOneReset ==
    (kpc = "returned" /\ kIn.spec \in HexRefs) =>
        /\ kRes.log = <<Reset(kIn.spec)>>
        /\ kRes.status \in {0, 1}
        /\ kRes.status = 0 <=> kIn.spec \in kIn.repo.resets

\* C13 witness: a commit hash whose reset succeeded in a repository where
\* a branch of the same name exists too.
C13_Witness ==
    /\ kpc = "returned" /\ kIn.spec = Sha6 /\ kRes.status = 0
    /\ OriginOf(Sha6) \in kIn.repo.resets
    /\ Len(kRes.log) = 1

\* The symbolic forms in the order the claim gives them.
Symbolic(spec) ==
    IF spec = Tip
    THEN <<OriginOf(spec), OriginGoOf(spec), OriginMaster, TagOf(spec), TagGoOf(spec)>>
    ELSE <<OriginOf(spec), OriginGoOf(spec), TagOf(spec), TagGoOf(spec)>>

\* The index of the first symbolic form the repository resolves, 0 if none.
FirstResolved(spec, repo) ==
    LET P == Symbolic(spec)
        hits == {i \in DOMAIN P : P[i] \in repo.resets}
    IN  IF hits = {} THEN 0 ELSE CHOOSE i \in hits : \A j \in hits : i <= j

\* C14: for a name (no commit hash, no modifier character) checkout resets
\* to the symbolic forms in the order origin/<ref>, origin/go<ref>,
\* origin/master (for "tip" only), refs/tags/<ref>, refs/tags/go<ref>, stops
\* with status 0 at the first that resolves, and runs the fallback (reset to
\* origin/master, then rev-parse) only after all of them failed.
C14_ProbesInOrder ==
    (kpc = "returned" /\ kIn.spec \in NamedRefs) =>
        LET P == Symbolic(kIn.spec)
            k == FirstResolved(kIn.spec, kIn.repo)
        IN  IF k > 0
            THEN /\ kRes.log = [i \in 1..k |-> Reset(P[i])]
                 /\ kRes.status = 0
            ELSE /\ Len(kRes.log) > Len(P)
                 /\ SubSeq(kRes.log, 1, Len(P)) = [i \in 1..Len(P) |-> Reset(P[i])]
                 /\ kRes.log[Len(P) + 1] = Reset(OriginMaster)

\* C14 witness: "tip" in a repository with no branch tip or gotip but with
\* the tag tip: the third probe, origin/master, is accepted.
C14_Witness ==
    /\ kpc = "returned" /\ kIn.spec = Tip /\ kRes.status = 0
    /\ OriginOf(Tip) \notin kIn.repo.resets /\ OriginGoOf(Tip) \notin kIn.repo.resets
    /\ OriginMaster \in kIn.repo.resets /\ TagOf(Tip) \in kIn.repo.resets
    /\ Len(kRes.log) = 3

IsHexString(s) == Len(s) >= 6 /\ \A i \in DOMAIN s : s[i] \in HexChars

\* The relative-revision fallback ran.
FellBack == \E i \in DOMAIN kRes.log : kRes.log[i].cmd = "rev-parse"

\* C15 as stated: after a successful checkout the version is a hexadecimal
\* string of six characters or more that is not the specifier.
C15_VersionIsShortHash ==
    (kpc = "returned" /\ kRes.status = 0) =>
        (IsHexString(kRes.version) /\ kRes.version # kIn.spec)

\* C15: after a successful checkout the version is the short commit hash
\* (12 hexadecimal characters or more) when the reference was resolved by
\* the relative-revision fallback, and the specifier itself when it was a
\* raw commit hash or resolved as a branch or tag.
C15_VersionRenamedByFallback ==
    (kpc = "returned" /\ kRes.status = 0) =>
        IF FellBack
        THEN /\ IsHexString(kRes.version) /\ Len(kRes.version) >= 12
             /\ IsPrefix(kRes.version, Rev)
        ELSE kRes.version = kIn.spec

\* C15 witness: HEAD^ resolved by the fallback.
C15_Witness ==
    /\ kpc = "returned" /\ kRes.status = 0 /\ kIn.spec = HeadUp
    /\ kRes.version = SubSeq(Rev, 1, 12)

\* References with a modifier character that are no commit hash.
ModifierRefs == {At, HeadUp, Sha6Up}

\* The four commands of the fallback for a reference, in order.
FallbackCommands(spec) ==
    <<Reset(OriginMaster),
      RevParse((IF spec = At THEN HeadRef ELSE spec) \o <<"^{object}">>),
      Reset(Rev), RevParse(Rev)>>

\* How many of the four commands succeed in a repository, counted from the
\* first, up to the first that fails.
FallbackReach(repo) ==
    IF OriginMaster \notin repo.resets THEN 0
    ELSE IF ~repo.parse THEN 1
    ELSE IF Rev \notin repo.resets THEN 2
    ELSE IF repo.short = 0 THEN 3
    ELSE 4

\* C21: for a reference holding one of @ ^ ~ : { } that is no commit hash,
\* checkout resets to no origin/ or refs/tags/ form of the reference; it
\* runs only the fallback: reset to origin/master, rev-parse of the
\* reference (HEAD for "@") as an object, reset to the object found, and
\* rev-parse of its short name, stopping at the first that fails.  It
\* returns 0 and prints the short hash when all four succeeded, and returns
\* 1 and prints nothing otherwise.
C21_ModifierOnlyFallback ==
    (kpc = "returned" /\ kIn.spec \in ModifierRefs) =>
        LET F == FallbackCommands(kIn.spec)
            n == FallbackReach(kIn.repo)
        IN  /\ kRes.log = SubSeq(F, 1, Min(n + 1, 4))
            /\ \A i \in DOMAIN kRes.log :
                   kRes.log[i] \notin {Reset(a) : a \in {OriginOf(kIn.spec), OriginGoOf(kIn.spec),
                                                        TagOf(kIn.spec), TagGoOf(kIn.spec)}}
            /\ IF n = 4
               THEN kRes.status = 0 /\ kRes.out = SubSeq(Rev, 1, kIn.repo.short)
               ELSE kRes.status = 1 /\ kRes.out = <<>>

\* C21 witness: "@" in a repository that has a branch named "@": the four
\* commands of the fallback ran, on HEAD, and the short hash was printed.
C21_Witness ==
    /\ kpc = "returned" /\ kIn.spec = At /\ kRes.status = 0
    /\ OriginOf(At) \in kIn.repo.resets
    /\ Len(kRes.log) = 4 /\ kRes.log[2] = RevParse(HeadRef \o <<"^{object}">>)
    /\ Len(kRes.out) = 12

(***************************************************************************)
(* _env, _env_alias and _wipe_version on the files under GIMME_ENV_PREFIX  *)
(* (specification SpecAlias): installs that reached their last two         *)
(* commands, and forced wipes, in any order.  A platform is an OS with an  *)
(* architecture.  The go binary of a release archive is built for the      *)
(* platform in the archive's name; the go binary a source build leaves in  *)
(* bin/ is built for the machine that ran make.bash.                       *)
(***************************************************************************)
OSes     == {"linux", "darwin"}
Arches   == {"amd64", "386"}
Versions == {"1.20", "1.21"}
Platforms == [os : OSes, arch : Arches]

\* "${1}/bin/go" version: a binary runs on the platform it was built for,
\* and on a machine that also executes the other architecture of its OS
\* (386 on amd64 Linux, amd64 under Rosetta).
GoRuns(host, native) ==
    native.os = host.os /\ (native.arch = host.arch \/ host.multi)

\* Mutation of GoosLine: GOOS is always unset.
GoosLineUnset(native, os) == <<"unset GOOS;">>

\* if [[ "$(go env GOHOSTOS)" == "${GIMME_OS}" ]]; then echo 'unset GOOS;'
\* else echo 'export GOOS="'"${GIMME_OS}"'";'; fi
GoosLine(native, os) ==
    IF native.os = os THEN <<"unset GOOS;">> ELSE <<"export GOOS=", os>>

GoarchLine(native, arch) ==
    IF native.arch = arch THEN <<"unset GOARCH;">> ELSE <<"export GOARCH=", arch>>

\* _env "dir": the exit status and the lines printed.  native is the
\* platform the binary dir/bin/go was built for.
_env(dir, native, target, host) ==
    IF ~GoRuns(host, native) THEN [status |-> 1, lines |-> <<>>]
    ELSE [status |-> 0,
          lines |-> <<<<>>, GoosLine(native, target.os), GoarchLine(native, target.arch),
                      <<"export GOROOT=", dir>>,
                      <<"export PATH=", dir \o "/bin", ":${PATH}">>>>
                    \o (IF host.silent THEN <<>> ELSE <<<<"go version >&2;">>>>)
                    \o <<<<>>>>]

\* The names of the install directory and of the descriptor.
BinName(v, t) == "go" \o v \o "." \o t.os \o "." \o t.arch
SrcName(v)    == "go" \o v \o ".src"
DescNames == {BinName(v, t) : v \in Versions, t \in Platforms}
             \cup {SrcName(v) : v \in Versions}

\* A descriptor file: what tee wrote, and beside it the platforms of the
\* install that wrote it.
File(out, native, target) ==
    [there |-> TRUE, lines |-> out.lines, native |-> native, target |-> target]

NoPlatform == [os |-> "", arch |-> ""]

\* No such file, and the file tee truncated when _env printed nothing.
Missing   == [there |-> FALSE, lines |-> <<>>, native |-> NoPlatform, target |-> NoPlatform]
EmptyFile == [there |-> TRUE, lines |-> <<>>, native |-> NoPlatform, target |-> NoPlatform]

\* _env "${dir}" | tee "${env}" || return 1
\* echo "export GIMME_ENV=\"$(_env_alias "${dir}" "${env}")\""
EnvAndAlias(name, v, native, target, noalias) ==
    LET out == _env(name, native, target, ehost)
        file == File(out, native, target)
    IN  /\ esteps < MaxSteps
        /\ esteps' = esteps + 1
        /\ IF out.status # 0
           THEN /\ edesc' = [edesc EXCEPT ![name] = EmptyFile]
                /\ UNCHANGED <<ealias, elatest>>
           ELSE /\ edesc' = [edesc EXCEPT ![name] = file]
                /\ IF ~noalias /\ native = target
                   THEN /\ ealias' = [ealias EXCEPT ![v] = file]
                        /\ elatest' = v
                   ELSE UNCHANGED <<ealias, elatest>>
        /\ UNCHANGED <<ehost, installVars, fetchVars, catVars, resVars, checkoutVars,
                       queryVars, raceVars, lateVars>>

\* _try_binary, from the _env line on: bin/go is the release's binary.
BinaryEnv ==
    \E v \in Versions, target \in Platforms, noalias \in BOOLEAN :
        EnvAndAlias(BinName(v, target), v, target, target, noalias)

\* _try_source, from the _env line on: bin/go was built on this machine.
SourceEnv ==
    \E v \in Versions, target \in Platforms, noalias \in BOOLEAN :
        EnvAndAlias(SrcName(v), v, [os |-> ehost.os, arch |-> ehost.arch], target, noalias)

\* ((force_install)) && _wipe_version: the descriptor of the binary record,
\* when it is not empty, is removed; no other file under GIMME_ENV_PREFIX is.
WipeEnv ==
    \E v \in Versions, target \in Platforms :
        /\ esteps < MaxSteps
        /\ esteps' = esteps + 1
        /\ edesc[BinName(v, target)].lines # <<>>
        /\ edesc' = [edesc EXCEPT ![BinName(v, target)] = Missing]
        /\ UNCHANGED <<ealias, elatest, ehost, installVars, fetchVars, catVars, resVars,
                       checkoutVars, queryVars, raceVars, lateVars>>

InitAlias ==
    /\ ehost \in [os : OSes, arch : Arches, multi : BOOLEAN, silent : BOOLEAN]
    /\ edesc = [n \in DescNames |-> Missing]
    /\ ealias = [v \in Versions |-> Missing]
    /\ elatest = "none"
    /\ esteps = 0
    /\ InstallIdle /\ FetchIdle /\ CatIdle /\ ResIdle /\ CheckoutIdle /\ QueryIdle
    /\ RaceIdle /\ LateIdle

NextAlias == BinaryEnv \/ SourceEnv \/ WipeEnv

SpecAlias == InitAlias /\ [][NextAlias]_vars

\* The descriptors _env wrote something into.
Written == {n \in DescNames : edesc[n].lines # <<>>}

HostPlatform == [os |-> ehost.os, arch |-> ehost.arch]

\* C16 as stated: a descriptor of an install whose target is not the
\* platform of its go binary sets both GOOS and GOARCH to the target's.
C16_CrossExportsBoth ==
    \A n \in Written :
        edesc[n].native # edesc[n].target =>
            /\ edesc[n].lines[2] = <<"export GOOS=", edesc[n].target.os>>
            /\ edesc[n].lines[3] = <<"export GOARCH=", edesc[n].target.arch>>

\* C16: in every descriptor, GOOS is unset when the OS of the install's go
\* binary is the target OS and set to the target OS otherwise; GOARCH
\* likewise, on its own; GOROOT is the install directory and PATH starts
\* with its bin directory.
C16_EnvPerDimension ==
    \A n \in Written :
        LET d == edesc[n]
        IN  /\ d.lines[2] = IF d.native.os = d.target.os THEN <<"unset GOOS;">>
                            ELSE <<"export GOOS=", d.target.os>>
            /\ d.lines[3] = IF d.native.arch = d.target.arch THEN <<"unset GOARCH;">>
                            ELSE <<"export GOARCH=", d.target.arch>>
            /\ d.lines[4] = <<"export GOROOT=", n>>
            /\ d.lines[5] = <<"export PATH=", n \o "/bin", ":${PATH}">>

\* C16 witness: descriptors of a source build for another OS and of an
\* install for the machine's own platform.
C16_Witness ==
    /\ \E n \in Written : /\ edesc[n].target.os # edesc[n].native.os
                          /\ edesc[n].lines[2] = <<"export GOOS=", edesc[n].target.os>>
    /\ \E n \in Written : /\ edesc[n].target = edesc[n].native
                          /\ edesc[n].lines[2] = <<"unset GOOS;">>
                          /\ edesc[n].lines[3] = <<"unset GOARCH;">>

\* C17: latest.env, when there is one, links to the descriptor of an install
\* whose target is the machine's own platform.
C17_AliasIsHostRecord ==
    elatest # "none" => ealias[elatest].target = HostPlatform

(***************************************************************************)
(* The resolve query, gimme -r <specifier> (specification SpecQuery): one  *)
(* query after the other on the same GIMME_VERSION_PREFIX, with time        *)
(* passing in between.  A file is [there, fresh, c]: it exists, it is       *)
(* younger than the age its reader tolerates, its content.  A function that *)
(* ends the script (exit, or a failing command under set -e) is a result    *)
(* with a status other than 0; d is the three files after it.               *)
(***************************************************************************)
StableSpec    == <<"s", "t", "a", "b", "l", "e">>
OldstableSpec == <<"o", "l", "d">> \o StableSpec
DotX          == <<".", "x">>

V(major, rest) == <<major, ".">> \o rest

\* What https://golang.org/VERSION?m=text may answer, without the "go".
Stables == { V("1", <<"2", "2", ".", "3">>), V("1", <<"2", "2">>),
             V("1", <<"1", "0", ".", "1">>), V("2", <<"0", ".", "1">>) }

\* What the download page may list.
QCatalogs ==
    { { V("1", <<"9", ".", "1">>), V("1", <<"9", ".", "2">>), V("1", <<"9", ".", "1", "0">>) },
      { V("1", <<"2", "1", ".", "0">>), V("1", <<"2", "1", ".", "2">>),
        V("1", <<"2", "1", ".", "1", "0">>) },
      { V("1", <<"9", "0">>) } }

\* The specifiers queried: the three aliases, wildcards with and without a
\* release, a wildcard that is no version, an exact version, a git name.
QSpecs == { StableSpec, OldstableSpec, Tip,
            V("1", <<"2", "1">>) \o DotX, V("1", <<"9">>) \o DotX, V("1", <<"8">>) \o DotX,
            <<"a", "b", "c">> \o DotX,
            V("1", <<"2", "1", ".", "0">>), Master }

NoText    == [there |-> FALSE, fresh |-> FALSE, c |-> <<>>]
NoList    == [there |-> FALSE, fresh |-> FALSE, c |-> <<>>]
Text(c)   == [there |-> TRUE, fresh |-> TRUE, c |-> c]

\* _file_older_than_secs: a missing file counts as too old.
Stale(file) == ~file.there \/ ~file.fresh

\* "${1}" == *.x
EndsDotX(spec) == Len(spec) >= 2 /\ SubSeq(spec, Len(spec) - 1, Len(spec)) = DotX

\* [[ "${base}" =~ ^[0-9.]+$ ]]
ValidBase(base) == base # <<>> /\ \A i \in DOMAIN base : IsDigit(base[i]) \/ base[i] = "."

\* [[ "${GIMME_GO_VERSION}" == +([[:digit:]]).+([[:digit:]])* ]]
LooksLikeVersion(spec) ==
    LET e == DigitsEnd(spec, 1)
    IN  e > 1 /\ e < Len(spec) /\ spec[e] = "." /\ IsDigit(spec[e + 1])

\* The decimal digits of a natural number.
RECURSIVE ToDigits(_)
ToDigits(n) == IF n < 10 THEN <<Digits[n + 1]>> ELSE ToDigits(n \div 10) \o <<Digits[(n % 10) + 1]>>

\* awk's conversion of a number to a string.
NumToStr(n) == IF n < 0 THEN <<"-">> \o ToDigits(0 - n) ELSE ToDigits(n)

\* Index of the first "." at or after i, Len(s) + 1 when there is none.
RECURSIVE DotAt(_, _)
DotAt(s, i) == IF i > Len(s) \/ s[i] = "." THEN i ELSE DotAt(s, i + 1)

\* awk -F. '{ $2--; print $1 "." $2 "." "x" }': the second field as a
\* number (its leading digits), less one.
AwkOldstable(stable) ==
    LET d1 == DotAt(stable, 1)
        e  == DigitsEnd(stable, d1 + 1)
    IN  SubSeq(stable, 1, d1 - 1) \o <<".">> \o NumToStr(NumVal(stable, d1 + 1, e) - 1) \o DotX

Disk(stable, old, list) == [stable |-> stable, old |-> old, known |-> list]

Res(status, out, d) == [status |-> status, out |-> out, d |-> d]

\* known="$(_update_remote_known_list_if_needed)": the status of the
\* command substitution.  Without a transport _do_curl ends the subshell
\* with 1; a failed transfer is not noticed there and leaves an empty list.
UpdateKnown(d, e, curl) ==
    IF ~Stale(d.known) THEN Res(0, <<>>, d)
    ELSE IF ~e.transport THEN Res(1, <<>>, d)
    ELSE Res(0, <<>>, [d EXCEPT !.known = Text(IF curl THEN e.sorted ELSE <<>>)])

\* _resolve_version "<base>.x", from `local base` on.
ResolveWildcard(spec, d, e, curl) ==
    LET base == SubSeq(spec, 1, Len(spec) - 2)
        k == UpdateKnown(d, e, curl)
    IN  IF k.status # 0 THEN Res(1, <<>>, k.d)
        ELSE IF ~ValidBase(base) THEN Res(2, <<>>, k.d)
        ELSE LET last == LastMatch(k.d.known.c, base, <<>>)
             IN  IF last # <<>> THEN Res(0, last, k.d) ELSE Res(2, spec, k.d)

\* _update_stable.  sub: called inside a command substitution, where a
\* failing command does not end anything; 22 is the status of curl -f.
UpdateStable(d, e, curl, sub) ==
    IF ~e.transport THEN Res(1, <<>>, d)
    ELSE IF curl THEN Res(0, <<>>, [d EXCEPT !.stable = Text(e.stable)])
    ELSE IF ~sub THEN Res(22, <<>>, d)
    ELSE Res(0, <<>>, [d EXCEPT !.stable.fresh = d.stable.there])

\* _get_curr_stable
GetCurrStable(d, e, curl, sub) ==
    LET u == IF Stale(d.stable) THEN UpdateStable(d, e, curl, sub) ELSE Res(0, <<>>, d)
    IN  IF u.status # 0 THEN u
        ELSE IF u.d.stable.there THEN Res(0, u.d.stable.c, u.d)
        ELSE Res(1, <<>>, u.d)

\* _update_oldstable: oldstable_x=$(_get_curr_stable | awk ...);
\* _resolve_version "${oldstable_x}" >"${oldstable}"
UpdateOldstable(d, e, curl) ==
    LET st == GetCurrStable(d, e, curl, TRUE)
    IN  IF st.status # 0 THEN Res(1, <<>>, st.d)
        ELSE LET r == ResolveWildcard(AwkOldstable(st.out), st.d, e, curl)
             IN  Res(r.status, <<>>, [r.d EXCEPT !.old = Text(r.out)])

\* _get_old_stable
GetOldStable(d, e, curl) ==
    LET u == IF Stale(d.old) THEN UpdateOldstable(d, e, curl) ELSE Res(0, <<>>, d)
    IN  IF u.status # 0 THEN u ELSE Res(0, u.d.old.c, u.d)

\* _resolve_version "${1}", the other specifiers: echo "${1}", then
\* _assert_version_given with ASSERT_ABORT='return'.  git: _checkout
\* returns 0 on the specifier.
ResolveOther(spec, d, type, git) ==
    IF spec # <<>> /\ (LooksLikeVersion(spec) \/ (type \in {"auto", "git"} /\ git))
    THEN Res(0, spec, d)
    ELSE Res(2, spec, d)

\* -r | --resolve | resolve: _resolve_version "${2}"; exit $?
ResolveQuery(spec, d, e, curl, type, git) ==
    IF spec = StableSpec THEN GetCurrStable(d, e, curl, FALSE)
    ELSE IF spec = OldstableSpec THEN GetOldStable(d, e, curl)
    ELSE IF spec = Tip THEN Res(0, Tip, d)
    ELSE IF EndsDotX(spec) THEN ResolveWildcard(spec, d, e, curl)
    ELSE ResolveOther(spec, d, type, git)

\* The specifiers whose resolution reads no GIMME_TYPE and runs no git.
Fetches(spec) == spec \in {StableSpec, OldstableSpec, Tip} \/ EndsDotX(spec)

QueryFrame ==
    UNCHANGED <<installVars, fetchVars, catVars, resVars, checkoutVars, aliasVars, raceVars,
                lateVars>>

InitQuery ==
    /\ \E tr \in BOOLEAN, how \in {"gnu", "fallback"}, st \in Stables, cat \in QCatalogs :
            qenv = [transport |-> tr, stable |-> st, catalog |-> cat,
                    sorted |-> _version_sort(cat, how)]
    /\ qstable = NoText /\ qold = NoText /\ qknown = NoList
    /\ qres = [spec |-> <<>>, status |-> -1, out |-> <<>>, computed |-> FALSE]
    /\ qn = 0
    /\ InstallIdle /\ FetchIdle /\ CatIdle /\ ResIdle /\ CheckoutIdle /\ AliasIdle
    /\ RaceIdle /\ LateIdle

\* One invocation gimme -r spec.  computed: the query found the oldstable
\* file too old and worked it out again.
Query ==
    /\ qn < MaxQueries
    /\ qn' = qn + 1
    /\ \E spec \in QSpecs, curl \in BOOLEAN :
       \E type \in IF Fetches(spec) THEN {"auto"} ELSE {"auto", "binary"} :
       \E git \in IF Fetches(spec) \/ type = "binary" THEN {FALSE} ELSE BOOLEAN :
        LET r == ResolveQuery(spec, Disk(qstable, qold, qknown), qenv, curl, type, git)
        IN  /\ qstable' = r.d.stable /\ qold' = r.d.old /\ qknown' = r.d.known
            /\ qres' = [spec |-> spec, status |-> r.status, out |-> r.out,
                        computed |-> spec = OldstableSpec /\ Stale(qold)]
    /\ UNCHANGED qenv
    /\ QueryFrame

\* GIMME_KNOWN_CACHE_MAX seconds pass: the catalogue file is too old.
ExpireKnown ==
    /\ qknown.fresh
    /\ qknown' = [qknown EXCEPT !.fresh = FALSE]
    /\ UNCHANGED <<qenv, qstable, qold, qres, qn>>
    /\ QueryFrame

\* A day passes: the three files are too old.
ExpireAll ==
    /\ qstable.fresh \/ qold.fresh
    /\ qstable' = [qstable EXCEPT !.fresh = FALSE]
    /\ qold' = [qold EXCEPT !.fresh = FALSE]
    /\ qknown' = [qknown EXCEPT !.fresh = FALSE]
    /\ UNCHANGED <<qenv, qres, qn>>
    /\ QueryFrame

NextQuery == Query \/ ExpireKnown \/ ExpireAll

SpecQuery == InitQuery /\ [][NextQuery]_vars

\* The versions of list under the prefix major.(minor - 1) of stable.
OlderMinor(list, stable) ==
    LET c == Components(stable, 1)
    IN  {v \in list : LET cv == Components(v, 1)
                      IN  /\ IsNumeric(v, 1) /\ Len(cv) >= 2
                          /\ cv[1] = c[1] /\ cv[2] = c[2] - 1}

\* C18: a query for oldstable that works the answer out again prints the
\* highest version of the catalogue whose major is the stable version's and
\* whose minor is one less.
C18_OldstableIsHighest ==
    (qres.computed /\ qres.status = 0) =>
        /\ OlderMinor(Range(qknown.c), qstable.c) # {}
        /\ qres.out = Highest(OlderMinor(Range(qknown.c), qstable.c))

\* C19: a query exits 0 only when the specifier resolved; one that prints a
\* wildcard for which no release was found, or nothing at all, exits 2.
C19_UnresolvedExitsTwo ==
    (qn > 0 /\ (qres.out = <<>> \/ EndsDotX(qres.out))) => qres.status # 0

\* C24: the oldstable file, whenever it exists, holds a version of the
\* catalogue: never a wildcard, never nothing.
C24_OldstableFileIsConcrete ==
    qold.there =>
        /\ qold.c # <<>> /\ ~EndsDotX(qold.c)
        /\ qold.c \in qenv.catalog

(***************************************************************************)
(* Two invocations of _try_binary for the same version and platform         *)
(* (specification SpecRace), on a machine where nothing is installed and    *)
(* every transfer succeeds, so that either of them alone ends with the      *)
(* release installed.  There is one candidate URL (Linux, not arm).  A      *)
(* transfer and an extraction take two steps each, their first and their    *)
(* last write; every other command is one step.                             *)
(***************************************************************************)
OtherProc(p) == CHOOSE q \in Procs : q # p

RaceFrame == UNCHANGED <<installVars, fetchVars, catVars, resVars, checkoutVars,
                         aliasVars, queryVars, lateVars>>

\* _do_curls: if _sha256sum -c "${f}.sha256"; then return 0; fi
RaceCheck(p) ==
    /\ xpc[p] = "check"
    /\ xpc' = [xpc EXCEPT ![p] = IF xsha = "ok" /\ xtgz = "good" THEN "extract" ELSE "curl"]
    /\ UNCHANGED <<xtgz, xsha, xdir, xenv, xlink>>
    /\ RaceFrame

\* _do_curl "${url}" "${f}": curl opens the file and truncates it.
RaceCurlBegin(p) ==
    /\ xpc[p] = "curl"
    /\ xtgz' = "partial"
    /\ xlink' = [xlink EXCEPT ![p] = TRUE]
    /\ xpc' = [xpc EXCEPT ![p] = "curling"]
    /\ UNCHANGED <<xsha, xdir, xenv>>
    /\ RaceFrame

\* curl has written its last byte.  The file is whole unless the path was
\* removed meanwhile (curl wrote into an unlinked file) or the other
\* transfer truncated it and has not yet written over the gap.
RaceCurlEnd(p) ==
    /\ xpc[p] = "curling"
    /\ IF ~xlink[p] THEN UNCHANGED xtgz
       ELSE IF xpc[OtherProc(p)] = "curling" /\ xlink[OtherProc(p)]
            THEN xtgz' \in {"partial", "good"}
            ELSE xtgz' = "good"
    /\ xpc' = [xpc EXCEPT ![p] = "sha"]
    /\ UNCHANGED <<xsha, xdir, xenv, xlink>>
    /\ RaceFrame

\* _do_curl "${url}.sha256" "${f}.sha256": the bare digest.
RaceSha(p) ==
    /\ xpc[p] = "sha"
    /\ xsha' = "raw"
    /\ xpc' = [xpc EXCEPT ![p] = "mv"]
    /\ UNCHANGED <<xtgz, xdir, xenv, xlink>>
    /\ RaceFrame

\* echo "$(cat "${f}.sha256")  ${f}" >"${f}.sha256.tmp"; mv ...
RaceMv(p) ==
    /\ xpc[p] = "mv"
    /\ xsha' = "ok"
    /\ xpc' = [xpc EXCEPT ![p] = "verify"]
    /\ UNCHANGED <<xtgz, xdir, xenv, xlink>>
    /\ RaceFrame

\* if ! _sha256sum -c "${f}.sha256"; then continue; fi; return -- and, the
\* loop being over, rm -f "${f}"; return 1
RaceVerify(p) ==
    /\ xpc[p] = "verify"
    /\ IF xsha = "ok" /\ xtgz = "good"
       THEN /\ xpc' = [xpc EXCEPT ![p] = "extract"]
            /\ UNCHANGED <<xtgz, xlink>>
       ELSE /\ xpc' = [xpc EXCEPT ![p] = "failed"]
            /\ xtgz' = "none"
            /\ xlink' = [q \in Procs |-> FALSE]
    /\ UNCHANGED <<xsha, xdir, xenv>>
    /\ RaceFrame

\* _extract: mkdir -p "${2}"; tar -xf "${1}" -C "${2}" --strip-components 1
\* tar fails on an archive that is missing or cut short.
RaceExtractBegin(p) ==
    /\ xpc[p] = "extract"
    /\ xdir' = "partial"
    /\ xpc' = [xpc EXCEPT ![p] = IF xtgz = "good" THEN "extracting" ELSE "failed"]
    /\ UNCHANGED <<xtgz, xsha, xenv, xlink>>
    /\ RaceFrame

\* tar has written its last file; the other tar may be rewriting bin/go.
RaceExtractEnd(p) ==
    /\ xpc[p] = "extracting"
    /\ IF xpc[OtherProc(p)] = "extracting"
       THEN xdir' \in {"partial", "ok"}
       ELSE xdir' = "ok"
    /\ xpc' = [xpc EXCEPT ![p] = "env"]
    /\ UNCHANGED <<xtgz, xsha, xenv, xlink>>
    /\ RaceFrame

\* _env "${bin_dir}" | tee "${bin_env}" || return 1
RaceEnv(p) ==
    /\ xpc[p] = "env"
    /\ IF xdir = "ok"
       THEN xenv' = "full" /\ xpc' = [xpc EXCEPT ![p] = "done"]
       ELSE xenv' = "empty" /\ xpc' = [xpc EXCEPT ![p] = "failed"]
    /\ UNCHANGED <<xtgz, xsha, xdir, xlink>>
    /\ RaceFrame

InitRace ==
    /\ xpc = [p \in Procs |-> "check"]
    /\ xtgz = "none" /\ xsha = "none" /\ xdir = "none" /\ xenv = "none"
    /\ xlink = [p \in Procs |-> FALSE]
    /\ InstallIdle /\ FetchIdle /\ CatIdle /\ ResIdle /\ CheckoutIdle /\ AliasIdle
    /\ QueryIdle /\ LateIdle

NextRace ==
    \E p \in Procs :
        \/ RaceCheck(p) \/ RaceCurlBegin(p) \/ RaceCurlEnd(p) \/ RaceSha(p) \/ RaceMv(p)
        \/ RaceVerify(p) \/ RaceExtractBegin(p) \/ RaceExtractEnd(p) \/ RaceEnv(p)

SpecRace == InitRace /\ [][NextRace]_vars

\* C20: when both invocations are over, both have installed the release and
\* the files are those a single install leaves: the whole archive with its
\* digest, the install directory and the descriptor.
C20_RaceIsHarmless ==
    (\A p \in Procs : xpc[p] \in {"done", "failed"}) =>
        /\ \A p \in Procs : xpc[p] = "done"
        /\ xtgz = "good" /\ xsha = "ok" /\ xdir = "ok" /\ xenv = "full"

(***************************************************************************)
(* The main flow on a specifier spelled out (specification SpecFlow): the  *)
(* version assertion and the strategy functions of the case statement,     *)
(* one invocation after the other.  A strategy function is one step here;  *)
(* what it does to the files is the business of Spec.  The flow keeps what *)
(* it asked of the network and of git: the clone or fetch of _fetch, the   *)
(* calls of _checkout and the archive downloads of _binary and _source.    *)
(***************************************************************************)
MaxFlows == 2   \* invocations of the main flow in one behaviour

Letters == {"a", "b", "c", "d", "e", "f", "g", "h", "i", "j", "k", "l", "m",
            "n", "o", "p", "q", "r", "s", "t", "u", "v", "w", "x", "y", "z",
            "A", "B", "C", "D", "E", "F", "G", "H", "I", "J", "K", "L", "M",
            "N", "O", "P", "Q", "R", "S", "T", "U", "V", "W", "X", "Y", "Z"}

\* [0-9a-zA-Z_-]
WordChar(c) == IsDigit(c) \/ c \in Letters \/ c \in {"_", "-"}

\* The index after the longest run of [0-9a-zA-Z_-] that starts at i.
RECURSIVE WordEnd(_, _)
WordEnd(s, i) == IF i <= Len(s) /\ WordChar(s[i]) THEN WordEnd(s, i + 1) ELSE i

\* (\.[0-9][0-9a-zA-Z_-]{0,9})+$ from index i on; one: a group was matched.
RECURSIVE DotGroups(_, _, _)
DotGroups(s, i, one) ==
    IF i > Len(s) THEN one
    ELSE /\ s[i] = "."
         /\ i + 1 <= Len(s) /\ IsDigit(s[i + 1])
         /\ LET j == WordEnd(s, i + 2)
            IN  j - (i + 2) <= 9 /\ DotGroups(s, j, TRUE)

\* Mutation of ALLOWED_UPSTREAM_VERSION_RE: the major may start with 0.
AllowedAnyMajor(s) ==
    /\ s # <<>> /\ IsDigit(s[1])
    /\ LET e == DigitsEnd(s, 2) IN e - 1 <= 4 /\ DotGroups(s, e, FALSE)

\* [[ "${version}" =~ ${ALLOWED_UPSTREAM_VERSION_RE} ]], the expression
\* ^[1-9][0-9]{0,3}(\.[0-9][0-9a-zA-Z_-]{0,9})+$
ALLOWED_UPSTREAM_VERSION_RE(s) ==
    /\ s # <<>> /\ IsDigit(s[1]) /\ s[1] # "0"
    /\ LET e == DigitsEnd(s, 2) IN e - 1 <= 4 /\ DotGroups(s, e, FALSE)

\* The specifiers given: releases, texts that begin like a release and are
\* none, a wildcard, and git references.
FlowSpecs ==
    { V120,                                                   \* 1.20
      V("1", <<"2", "_", "a", "-", "B">>),                    \* 1.2_a-B
      V("0", <<"9">>),                                        \* 0.9
      V("1", <<"2", "3", "4", "5">>) \o <<".", "6">>,         \* 1.2345.6
      <<"1", "2", "3", "4", "5", ".", "6">>,                  \* 12345.6
      V("1", <<"2", ".", "b">>),                              \* 1.2.b
      V("1", <<"1", "2", "3", "4", "5", "6", "7", "8", "9", "0", "1">>),  \* 1.12345678901
      V("1", <<"2", "@", "x">>),                              \* 1.2@x
      <<"2">>,                                                \* 2
      V("1", <<"2", "1">>) \o DotX,                           \* 1.21.x
      Master, Tip, HeadUp, Sha6 }

\* What _resolve_version may find for a wildcard in the catalogue.
Found(spec) == {SubSeq(spec, 1, Len(spec) - 2) \o <<".", "2">>}

Op(op, by, v) == [op |-> op, by |-> by, v |-> v]

\* a || b of the case statement: the next function, or the script's exit 1.
FlowFail(s) ==
    LET nx == Fallback(gcfg.mode, s)
    IN  IF nx = "exhausted" THEN gpc' = "done" /\ gexit' = 1
                            ELSE gpc' = nx /\ gexit' = gexit

FlowExit(status) == gpc' = "done" /\ gexit' = status

FlowFrame == UNCHANGED <<installVars, fetchVars, catVars, resVars, checkoutVars, aliasVars,
                         queryVars, raceVars, callVars, nativeVars>>

\* The argument loop: GIMME_GO_VERSION="${1}".
FlowStart ==
    /\ gpc \in {"idle", "done"}
    /\ gn < MaxFlows
    /\ gn' = gn + 1
    /\ \E spec \in FlowSpecs, mode \in Modes :
          /\ gcfg' = [spec |-> spec, mode |-> mode]
          /\ gver' = spec
    /\ grepo' = IF grepo = "none" THEN "none" ELSE "stale"
    /\ gops' = <<>> /\ gexit' = -1 /\ gpc' = "assert"
    /\ UNCHANGED ginst
    /\ FlowFrame

\* _assert_version_given of the main flow (ASSERT_ABORT unset, set -e on)
FlowAssert ==
    /\ gpc = "assert"
    /\ \E res \in (IF EndsDotX(gver) THEN Found(gver) \cup {<<>>} ELSE {gver}) :
          IF gver = <<>> \/ res = <<>>
          THEN \* no version given, or no release for the wildcard
               FlowExit(1) /\ UNCHANGED <<gver, grepo, gops>>
          ELSE IF LooksLikeVersion(res)
          THEN /\ gver' = res /\ gpc' = Dispatch(gcfg.mode)[1] /\ gexit' = gexit
               /\ UNCHANGED <<grepo, gops>>
          ELSE IF gcfg.mode \notin {"auto", "git"}
          THEN FlowExit(1) /\ UNCHANGED <<gver, grepo, gops>>
          ELSE \E fetched \in BOOLEAN :
                 IF ~fetched
                 THEN \* git clone or git fetch failed: set -e ends the script
                      FlowExit(128) /\ UNCHANGED <<gver, grepo, gops>>
                 ELSE \E repo \in ReposOf(res) :
                        LET r == _checkout(res, repo)
                        IN  /\ grepo' = "fresh"
                            /\ gops' = gops \o <<Op("fetch", "assert", res),
                                                 Op("checkout", "assert", res)>>
                            /\ IF r.status = 0
                               THEN /\ gver' = ResolvedSha(res, r)
                                    /\ gpc' = Dispatch(gcfg.mode)[1] /\ gexit' = gexit
                               ELSE FlowExit(1) /\ gver' = gver
    /\ UNCHANGED <<gcfg, ginst, gn>>
    /\ FlowFrame

\* _try_existing binary / _try_existing source
FlowExisting(s, kind) ==
    /\ gpc = s
    /\ IF <<kind, gver>> \in ginst THEN FlowExit(0) ELSE FlowFail(s)
    /\ UNCHANGED <<gcfg, gver, grepo, ginst, gops, gn>>
    /\ FlowFrame

\* _try_binary / _try_source: the test of the version, then the download
\* (_do_curl ends the script when no transport tool is installed), then
\* extraction, build and descriptor.
FlowDownload(s, kind) ==
    /\ gpc = s
    /\ IF ~ALLOWED_UPSTREAM_VERSION_RE(gver)
       THEN FlowFail(s) /\ UNCHANGED <<gops, ginst>>
       ELSE \E out \in {"notool", "nofile", "broken", "installed"} :
              CASE out = "notool" -> FlowExit(1) /\ UNCHANGED <<gops, ginst>>
                [] out = "installed" ->
                      /\ gops' = Append(gops, Op("download", s, gver))
                      /\ ginst' = ginst \cup {<<kind, gver>>}
                      /\ FlowExit(0)
                [] OTHER ->
                      /\ gops' = Append(gops, Op("download", s, gver))
                      /\ FlowFail(s) /\ UNCHANGED ginst
    /\ UNCHANGED <<gcfg, gver, grepo, gn>>
    /\ FlowFrame

\* _try_git: _checkout "${GIMME_GO_VERSION}" "${git_dir}" >/dev/null || return 1,
\* then _compile, _try_install_race, _env.  Without a clone every git
\* command of _checkout fails.
FlowGit ==
    /\ gpc = "GitBuild"
    /\ gops' = Append(gops, Op("checkout", "GitBuild", gver))
    /\ IF grepo = "none"
       THEN FlowFail("GitBuild")
       ELSE \E repo \in ReposOf(gver), built \in BOOLEAN :
              IF _checkout(gver, repo).status = 0 /\ built
              THEN FlowExit(0) ELSE FlowFail("GitBuild")
    /\ UNCHANGED <<gcfg, gver, grepo, ginst, gn>>
    /\ FlowFrame

InitFlow ==
    /\ gpc = "idle"
    /\ gcfg = [spec |-> <<>>, mode |-> "auto"]
    /\ gver = <<>>
    /\ grepo \in {"none", "stale"}
    /\ ginst = {}
    /\ gops = <<>> /\ gexit = -1 /\ gn = 0
    /\ InstallIdle /\ FetchIdle /\ CatIdle /\ ResIdle /\ CheckoutIdle /\ AliasIdle
    /\ QueryIdle /\ RaceIdle /\ CallsIdle /\ NativeIdle

NextFlow ==
    \/ FlowStart
    \/ FlowAssert
    \/ FlowExisting("ExistingBinary", "bin")
    \/ FlowExisting("ExistingSource", "src")
    \/ FlowDownload("PrecompiledBinary", "bin")
    \/ FlowDownload("SourceBuild", "src")
    \/ FlowGit

SpecFlow == InitFlow /\ [][NextFlow]_vars

\* The texts between the dots of s.
RECURSIVE Parts(_)
Parts(s) ==
    LET d == DotAt(s, 1)
    IN  IF d > Len(s) THEN <<s>>
        ELSE <<SubSeq(s, 1, d - 1)>> \o Parts(SubSeq(s, d + 1, Len(s)))

\* A major of 1 to 9999 without leading zero, then one or more dot
\* components of 1 to 10 characters, each a digit followed by letters,
\* digits, "_" or "-".
PublishedShape(s) ==
    LET P == Parts(s)
    IN  /\ Len(P) >= 2
        /\ Len(P[1]) \in 1..4 /\ P[1][1] # "0" /\ \A i \in DOMAIN P[1] : IsDigit(P[1][i])
        /\ \A k \in 2..Len(P) :
              /\ Len(P[k]) \in 1..10 /\ IsDigit(P[k][1])
              /\ \A i \in DOMAIN P[k] : WordChar(P[k][i])

Downloads == {i \in DOMAIN gops : gops[i].op = "download"}
Checkouts == {i \in DOMAIN gops : gops[i].op = "checkout"}

\* The invocation is over, its specifier was no wildcard and not of the
\* published shape, and git did not fail to clone or fetch.
OtherSpecifierDone ==
    /\ gpc = "done" /\ gexit # 128
    /\ ~EndsDotX(gcfg.spec) /\ ~PublishedShape(gcfg.spec)

\* C22 as stated: archives are downloaded only for versions of the
\* published shape, and an invocation for any other specifier has downloaded
\* nothing and has handed the specifier to _checkout.
C22_OthersAreCheckedOut ==
    /\ \A i \in Downloads : PublishedShape(gops[i].v)
    /\ OtherSpecifierDone => (Downloads = {} /\ Checkouts # {})

\* C22: archives are downloaded only for versions of the published shape;
\* an invocation for any other specifier downloads nothing, and it hands the
\* specifier to _checkout exactly when the specifier begins like a version
\* (digits, dot, digit) and GIMME_TYPE chains _try_git (auto, source, git),
\* or does not begin like a version and GIMME_TYPE is auto or git.  In the
\* other cases it ends with status 1 and git was never run.
C22_DownloadsOnlyPublished ==
    /\ \A i \in Downloads : PublishedShape(gops[i].v)
    /\ OtherSpecifierDone =>
          /\ Downloads = {}
          /\ IF IF LooksLikeVersion(gcfg.spec) THEN gcfg.mode \in {"auto", "source", "git"}
                                               ELSE gcfg.mode \in {"auto", "git"}
             THEN Checkouts # {}
             ELSE gops = <<>> /\ gexit = 1

\* C22 witness: 0.9 with GIMME_TYPE auto: no archive was asked for and the
\* one checkout is that of _try_git.
C22_Witness ==
    /\ gpc = "done" /\ gcfg.spec = V("0", <<"9">>) /\ gcfg.mode = "auto"
    /\ gops = <<Op("checkout", "GitBuild", gcfg.spec)>>

\* C23: whenever _try_git has called _checkout, _fetch has cloned or fetched
\* the repository earlier in the same invocation, so the clone exists and
\* is fresh.
C23_GitBuildAfterFetch ==
    \A i \in Checkouts :
        gops[i].by = "GitBuild" =>
            /\ \E j \in 1..(i - 1) : gops[j].op = "fetch"
            /\ grepo = "fresh"

(***************************************************************************)
(* The calls of version resolution (specification SpecCalls):              *)
(* _resolve_version, _assert_version_given, _get_curr_stable,              *)
(* _get_old_stable and _update_oldstable as frames on a stack.  A frame is *)
(* the function, its argument (GIMME_GO_VERSION for _assert_version_given) *)
(* and the point it is at.  What a function reads from the files and the   *)
(* network is chosen when it is needed.  A step of a function either calls *)
(* (a frame is pushed) or returns (its frame is popped); the commands in   *)
(* between call nothing of the five.                                       *)
(***************************************************************************)
MaxEntries == 2   \* invocations of the script in one behaviour
MaxCalls   == 9   \* cap of the number of calls of one invocation

Frame(fn, arg, at) == [fn |-> fn, arg |-> arg, at |-> at]

Top == callstack[Len(callstack)]

\* The specifiers handed to the script.
CallSpecs ==
    { StableSpec, OldstableSpec, Tip, Master, V120, Sha6, <<>>,
      V("1", <<"2", "1">>) \o DotX, <<"a", "b", "c">> \o DotX }

\* What awk makes of the output of _get_curr_stable: nothing when there was
\* no output.
OldstableX == {AwkOldstable(st) : st \in Stables} \cup {<<>>}

\* The function on top calls fn(arg) and goes on at `at` when it returns.
Push(fn, arg, at) ==
    /\ calls < MaxCalls
    /\ callstack' = [callstack EXCEPT ![Len(callstack)].at = at]
                        \o <<Frame(fn, arg, "start")>>
    /\ calls' = calls + 1

\* The function on top returns.
Pop ==
    /\ callstack' = SubSeq(callstack, 1, Len(callstack) - 1)
    /\ calls' = calls

CallsFrame == UNCHANGED <<installVars, fetchVars, catVars, resVars, checkoutVars, aliasVars,
                          queryVars, raceVars, flowVars, nativeVars>>

\* The script starts: gimme -r spec calls _resolve_version; the main flow
\* calls _get_curr_stable for stable, _get_old_stable for oldstable, and
\* _assert_version_given.
Enter ==
    /\ callstack = <<>>
    /\ entries < MaxEntries
    /\ entries' = entries + 1
    /\ calls' = 1
    /\ \E spec \in CallSpecs, query \in BOOLEAN :
          callstack' =
              <<Frame(IF query THEN "_resolve_version"
                      ELSE IF spec = StableSpec THEN "_get_curr_stable"
                      ELSE IF spec = OldstableSpec THEN "_get_old_stable"
                      ELSE "_assert_version_given", spec, "start")>>
    /\ CallsFrame

\* Mutation of DotXCase: every specifier is handed on.
DotXCaseAlways(arg) == TRUE

\* [[ "${GIMME_GO_VERSION}" == *.x ]] of _assert_version_given
DotXCase(arg) == EndsDotX(arg)

\* _resolve_version: the case statement
StepResolveVersion ==
    /\ callstack # <<>> /\ Top.fn = "_resolve_version"
    /\ IF Top.at = "start"
       THEN CASE Top.arg = StableSpec -> Push("_get_curr_stable", <<>>, "return")
              [] Top.arg = OldstableSpec -> Push("_get_old_stable", <<>>, "return")
              [] Top.arg = Tip -> Pop
              [] Top.arg \notin {StableSpec, OldstableSpec, Tip} /\ EndsDotX(Top.arg) -> Pop
              [] OTHER -> Push("_assert_version_given", Top.arg, "return")
       ELSE Pop
    /\ UNCHANGED entries
    /\ CallsFrame

\* _assert_version_given: a version ending in .x is resolved first; the
\* rest of the function calls _fetch and _checkout at most.
StepAssertVersionGiven ==
    /\ callstack # <<>> /\ Top.fn = "_assert_version_given"
    /\ IF Top.at = "start" /\ Top.arg # <<>> /\ DotXCase(Top.arg)
       THEN Push("_resolve_version", Top.arg, "resolved")
       ELSE Pop
    /\ UNCHANGED entries
    /\ CallsFrame

\* _get_curr_stable: _update_stable, cat
StepGetCurrStable ==
    /\ callstack # <<>> /\ Top.fn = "_get_curr_stable"
    /\ Pop
    /\ UNCHANGED entries
    /\ CallsFrame

\* _get_old_stable: _update_oldstable when the file is too old, cat
StepGetOldStable ==
    /\ callstack # <<>> /\ Top.fn = "_get_old_stable"
    /\ IF Top.at = "start"
       THEN \E stale \in BOOLEAN :
               IF stale THEN Push("_update_oldstable", <<>>, "return") ELSE Pop
       ELSE Pop
    /\ UNCHANGED entries
    /\ CallsFrame

\* _update_oldstable: _get_curr_stable | awk, then _resolve_version
StepUpdateOldstable ==
    /\ callstack # <<>> /\ Top.fn = "_update_oldstable"
    /\ CASE Top.at = "start" -> Push("_get_curr_stable", <<>>, "awk")
         [] Top.at = "awk" -> \E x \in OldstableX : Push("_resolve_version", x, "return")
         [] OTHER -> Pop
    /\ UNCHANGED entries
    /\ CallsFrame

InitCalls ==
    /\ callstack = <<>> /\ calls = 0 /\ entries = 0
    /\ InstallIdle /\ FetchIdle /\ CatIdle /\ ResIdle /\ CheckoutIdle /\ AliasIdle
    /\ QueryIdle /\ RaceIdle /\ FlowIdle /\ NativeIdle

Returns ==
    \/ StepResolveVersion
    \/ StepAssertVersionGiven
    \/ StepGetCurrStable
    \/ StepGetOldStable
    \/ StepUpdateOldstable

NextCalls == Enter \/ Returns

\* A function that runs makes its next step.
SpecCalls == InitCalls /\ [][NextCalls]_vars /\ WF_vars(Returns)

\* Frame i was called by frame i - 1.
CalledBy(i, callee, caller) ==
    i > 1 /\ callstack[i].fn = callee /\ callstack[i - 1].fn = caller

\* C25: resolution ends.  At every moment no function is on the stack
\* twice with the same argument, at most five are on the stack and six were
\* called; _resolve_version has called _assert_version_given only with a
\* specifier that does not end in .x, and _assert_version_given has called
\* _resolve_version only with one that does; and every invocation returns.
C25_ResolutionTerminates ==
    /\ [](/\ \A i, j \in DOMAIN callstack :
                (callstack[i].fn = callstack[j].fn /\ callstack[i].arg = callstack[j].arg)
                    => i = j
          /\ Len(callstack) <= 5 /\ calls <= 6
          /\ \A i \in DOMAIN callstack :
                /\ CalledBy(i, "_assert_version_given", "_resolve_version")
                      => ~EndsDotX(callstack[i].arg)
                /\ CalledBy(i, "_resolve_version", "_assert_version_given")
                      => EndsDotX(callstack[i].arg))
    /\ (callstack # <<>>) ~> (callstack = <<>>)

\* C25 witness: oldstable, the file too old and no output of
\* _get_curr_stable: _resolve_version called _assert_version_given from
\* inside _update_oldstable, five frames deep.
C25_Witness ==
    /\ Len(callstack) = 5
    /\ callstack[1].fn = "_resolve_version" /\ callstack[1].arg = OldstableSpec
    /\ callstack[4].fn = "_resolve_version"
    /\ callstack[5].fn = "_assert_version_given"

(***************************************************************************)
(* nativeType of validation-gen (specification SpecNative), applied to     *)
(* every type of up to MaxDepth constructors over a base type.  Pointer,   *)
(* slice and alias all have one component (Elem, Elem, Underlying), so a   *)
(* *types.Type is the sequence of its constructors from the outside in,    *)
(* ending in the base type: given `type X *int`, *X is <<"*", "X", "*",    *)
(* "int">>.                                                                *)
(***************************************************************************)
MaxDepth == 3   \* constructors around the base type

AliasNames == {"X", "Y"}

BaseTypes == {"int", "struct"}

GoTypes ==
    {c \o <<b>> : c \in UNION {[1..n -> {"*", "[]"} \cup AliasNames] : n \in 0..MaxDepth},
                  b \in BaseTypes}

\* t.Kind
Kind(t) ==
    CASE t[1] = "*" -> "Pointer"
      [] t[1] = "[]" -> "Slice"
      [] t[1] \in AliasNames -> "Alias"
      [] OTHER -> "Builtin"

\* t.Underlying of an alias, t.Elem of a pointer
Underlying(t) == Tail(t)

Elem(t) == Tail(t)

\* types.PointerTo(t): a pointer type whose Elem is t
PointerTo(t) == <<"*">> \o t

\* The first loop: aliases are skipped and pointers counted, up to the
\* first type that is neither.
RECURSIVE Unwrap(_, _)
Unwrap(t, ptrs) ==
    IF Kind(t) = "Alias" THEN Unwrap(Underlying(t), ptrs)
    ELSE IF Kind(t) = "Pointer" THEN Unwrap(Elem(t), ptrs + 1)
    ELSE [t |-> t, ptrs |-> ptrs]

\* Mutation of Rewrap: one pointer is put back, however many were counted.
RewrapOnce(t, ptrs) == IF ptrs = 0 THEN t ELSE PointerTo(t)

\* for range ptrs { t = types.PointerTo(t) }
RECURSIVE Rewrap(_, _)
Rewrap(t, ptrs) == IF ptrs = 0 THEN t ELSE Rewrap(PointerTo(t), ptrs - 1)

nativeType(t) == LET u == Unwrap(t, 0) IN Rewrap(u.t, u.ptrs)

NativeFrame == UNCHANGED <<installVars, fetchVars, catVars, resVars, checkoutVars, aliasVars,
                           queryVars, raceVars, flowVars, callVars>>

InitNative ==
    /\ ntpc = "call"
    /\ ntIn \in GoTypes
    /\ ntOut = <<>>
    /\ InstallIdle /\ FetchIdle /\ CatIdle /\ ResIdle /\ CheckoutIdle /\ AliasIdle
    /\ QueryIdle /\ RaceIdle /\ FlowIdle /\ CallsIdle

CallNativeType ==
    /\ ntpc = "call"
    /\ ntOut' = nativeType(ntIn)
    /\ ntpc' = "returned"
    /\ UNCHANGED ntIn
    /\ NativeFrame

NextNative == CallNativeType

SpecNative == InitNative /\ [][NextNative]_vars

\* The length of the chain of aliases and pointers at the top of t.
RECURSIVE ChainLen(_)
ChainLen(t) == IF t[1] \in {"*"} \cup AliasNames THEN 1 + ChainLen(Tail(t)) ELSE 0

\* C26: nativeType returns the type under the chain of aliases and pointers
\* at the top of its argument, inside as many pointers as the chain holds,
\* and nothing of the aliases; what lies under the chain, a slice of an
\* alias included, is returned as it is, and so is an argument with no
\* alias or pointer at the top.
C26_NativeTypeKeepsPointers ==
    ntpc = "returned" =>
        LET n     == ChainLen(ntIn)
            chain == SubSeq(ntIn, 1, n)
            under == SubSeq(ntIn, n + 1, Len(ntIn))
            stars == SelectSeq(chain, LAMBDA c : c = "*")
        IN  /\ ntOut = stars \o under
            /\ n = 0 => ntOut = ntIn

\* C26 witness: given `type X *int`, *X came back as **int.
C26_Witness ==
    /\ ntpc = "returned"
    /\ ntIn = <<"*", "X", "*", "int">>
    /\ ntOut = <<"*", "*", "int">>
====
